---- MODULE Spec2Model ----
(***************************************************************************)
(* NES emulator core (rkd-emulator-nes): CPU bus (Memory), MOS 6502 core   *)
(* (Cpu6502), PPU register file and timing (Ppu), NROM cartridge (Mapper0) *)
(* and the driver loop of main.ts.                                         *)
(*                                                                         *)
(* The machine state is threaded through the operators as a record         *)
(*   m = [cpu, ram, ppu, mapper, shadow, pulled]                           *)
(* so that a handler which calls push/read/write several times is one      *)
(* composed operator and one action.  Byte arrays that the code allocates  *)
(* zero-filled (Uint8Array) are kept sparse: a function on the indices     *)
(* that were written, reading 0 elsewhere.                                 *)
(***************************************************************************)
EXTENDS Integers, Sequences, FiniteSets, TLC

VARIABLES cpu, ram, ppu, mapper, drv, shadow, last, pre, cnt, pad, padh

vars == <<cpu, ram, ppu, mapper, drv, shadow, last, pre, cnt, pad, padh>>

(***************************************************************************)
(* Bounds of the exploration.                                              *)
(***************************************************************************)
MaxSteps == 7
MaxCalls == 3
MaxWrites == 3
MaxInstr == 4
MaxPresses == 2
MaxStrobes == 3
MaxReads == 10
MaxRegOps == 4
MaxPokes == 2
MaxPortOps == 4
MaxVramOps == 3
MaxLines == 524
MaxRenderOps == 4
MaxHitOps == 2
MaxHitLines == 263
MaxA12Ticks == 3
MaxA12Writes == 3
MaxA12Ops == 2
MaxM4Writes == 4
MaxM4Edges == 4
MaxM4Calls == 1
MaxM1Writes == 7
MaxM1Calls == 1
MaxM1RamOps == 3
MaxM2Writes == 4
MaxM2Calls == 1
MaxResetWrites == 3
MaxM4CtlWrites == 4
MaxM4Accesses == 19
MaxM1BankOps == 3

(***************************************************************************)
(* Bit arithmetic on non-negative integers.                                *)
(***************************************************************************)
RECURSIVE BitAnd(_, _)
BitAnd(a, b) ==
  IF a = 0 \/ b = 0 THEN 0
  ELSE (a % 2) * (b % 2) + 2 * BitAnd(a \div 2, b \div 2)

RECURSIVE BitOr(_, _)
BitOr(a, b) ==
  IF a = 0 THEN b
  ELSE IF b = 0 THEN a
  ELSE (IF a % 2 = 1 \/ b % 2 = 1 THEN 1 ELSE 0) + 2 * BitOr(a \div 2, b \div 2)

\* a & ~b within 16 bits
BitClear(a, b) == a - BitAnd(a, b)

\* low and high byte of a 16-bit word
Lo(w) == w % 256
Hi(w) == (w \div 256) % 256

\* sparse zero-filled array
At(arr, i) == IF i \in DOMAIN arr THEN arr[i] ELSE 0
Put(arr, i, v) == [j \in (DOMAIN arr) \cup {i} |-> IF j = i THEN v ELSE arr[j]]
Empty == [j \in {} |-> 0]

(***************************************************************************)
(* Flags6502                                                               *)
(***************************************************************************)
Carry == 1
Zero == 2
InterruptDisable == 4
Decimal == 8
Break == 16
Unused == 32
Overflow == 64
Negative == 128

(***************************************************************************)
(* Mapper0 (NROM)                                                          *)
(***************************************************************************)
PrgFill == 234   \* 0xEA: the NOP fill of the test cartridges

PrgAt(mp, off) == IF off \in DOMAIN mp.prgRom THEN mp.prgRom[off] ELSE PrgFill

Mapper0_cpuRead(mp, addr) ==
  IF addr >= 24576 /\ addr <= 32767 THEN At(mp.prgRam, addr - 24576)
  ELSE IF addr >= 32768 THEN
    IF mp.prgSize = 16384 THEN PrgAt(mp, (addr - 32768) % 16384)
    ELSE PrgAt(mp, (addr - 32768) % 32768)
  ELSE 0

Mapper0_cpuWrite(mp, addr, value) ==
  IF addr >= 24576 /\ addr <= 32767
  THEN [mp EXCEPT !.prgRam = Put(mp.prgRam, addr - 24576, value)]
  ELSE mp

Mapper0_ppuRead(mp, addr) ==
  IF addr % 16384 < 8192 THEN At(mp.chr, addr % 16384) ELSE 0

Mapper0_ppuWrite(mp, addr, value) ==
  IF addr % 16384 < 8192 /\ mp.chrIsRam
  THEN [mp EXCEPT !.chr = Put(mp.chr, addr % 16384, value)]
  ELSE mp

Mapper0_reset(mp) ==
  [mp EXCEPT !.prgRam = Empty, !.chr = IF mp.chrIsRam THEN Empty ELSE mp.chr]

NoMapper == [kind |-> "none"]

Mapper0_new(prg, size, mir) ==
  [kind |-> "nrom", prgRom |-> prg, prgSize |-> size, prgRam |-> Empty,
   chr |-> Empty, chrIsRam |-> TRUE, mirroring |-> mir]

(***************************************************************************)
(* Mapper4 (MMC3).  A ROM image is [size, unit]: the images of the mapper  *)
(* tests, in which every bank of `unit` bytes is filled with its index.    *)
(* clocks is a history field: the calls of clockIrqCounter made so far.    *)
(***************************************************************************)
\* a cartridge with a program gives its bytes in `bytes`, over the same fill
RomAt(rom, off) ==
  IF "bytes" \in DOMAIN rom /\ off \in DOMAIN rom.bytes THEN rom.bytes[off]
  ELSE (off \div rom.unit) % 256

Mapper4_new(prgRom, chrRom, mir) ==
  [kind |-> "mmc3", prgRom |-> prgRom, chrRom |-> chrRom, chrRam |-> Empty,
   chrIsRam |-> (chrRom.size = 0),
   prgRam |-> Empty, prgRamEnable |-> TRUE, prgRamWriteProtect |-> FALSE,
   mirroring |-> mir,
   bankSelect |-> 0, bankRegs |-> [i \in 0..7 |-> 0], prgMode |-> 0, chrMode |-> 0,
   prgBankCount |-> prgRom.size \div 8192,
   chrBankCount1k |-> (IF chrRom.size = 0 THEN 8192 ELSE chrRom.size) \div 1024,
   prgMap |-> [i \in 0..3 |-> 0], chrMap1k |-> [i \in 0..7 |-> 0],
   irqLatch |-> 0, irqCounter |-> 0, irqReload |-> FALSE, irqEnabled |-> FALSE,
   irqPending |-> FALSE,
   lastA12 |-> 0, a12LowStreak |-> 0, a12Cooldown |-> 0, clocks |-> 0]

\* mutant: the PRG mode is not looked at
recomputePrgMap_mode0(mp) ==
  IF mp.prgBankCount = 0 THEN [mp EXCEPT !.prgMap = [i \in 0..3 |-> 0]]
  ELSE [mp EXCEPT !.prgMap =
         [i \in 0..3 |->
            IF i = 3 THEN mp.prgBankCount - 1
            ELSE IF i = 1 THEN mp.bankRegs[7] % mp.prgBankCount
            ELSE IF i = 0 THEN mp.bankRegs[6] % mp.prgBankCount
            ELSE IF mp.prgBankCount >= 2 THEN mp.prgBankCount - 2 ELSE 0]]

recomputePrgMap(mp) ==
  IF mp.prgBankCount = 0 THEN [mp EXCEPT !.prgMap = [i \in 0..3 |-> 0]]
  ELSE [mp EXCEPT !.prgMap =
         [i \in 0..3 |->
            IF i = 3 THEN mp.prgBankCount - 1
            ELSE IF i = 1 THEN mp.bankRegs[7] % mp.prgBankCount
            ELSE IF (i = 0) = (mp.prgMode = 0) THEN mp.bankRegs[6] % mp.prgBankCount
            ELSE IF mp.prgBankCount >= 2 THEN mp.prgBankCount - 2 ELSE 0]]

\* the 2 KiB registers R0 and R1 with bit 0 cleared
chrPair(mp, r, i) ==
  ((((mp.bankRegs[r] \div 2) * 2) % mp.chrBankCount1k) + i) % mp.chrBankCount1k

recomputeChrMap(mp) ==
  IF mp.chrBankCount1k = 0 THEN [mp EXCEPT !.chrMap1k = [i \in 0..7 |-> 0]]
  ELSE [mp EXCEPT !.chrMap1k =
         [i \in 0..7 |->
            IF (i < 4) = (mp.chrMode = 0)
            THEN chrPair(mp, (i % 4) \div 2, i % 2)
            ELSE mp.bankRegs[2 + (i % 4)] % mp.chrBankCount1k]]

Mapper4_reset(mp) ==
  recomputeChrMap(recomputePrgMap(
    [mp EXCEPT !.prgRam = Empty,
               !.chrRam = Empty,
               !.bankSelect = 0,
               !.bankRegs = [i \in 0..7 |->
                  IF i = 6 /\ mp.prgBankCount > 1 THEN mp.prgBankCount - 2
                  ELSE IF i = 7 /\ mp.prgBankCount > 1 THEN mp.prgBankCount - 1
                  ELSE 0],
               !.prgMode = 0, !.chrMode = 0,
               !.irqLatch = 0, !.irqCounter = 0, !.irqReload = FALSE,
               !.irqEnabled = FALSE, !.irqPending = FALSE,
               !.lastA12 = 0, !.a12LowStreak = 0, !.a12Cooldown = 0]))

Mapper4_cpuRead(mp, addr) ==
  IF addr >= 24576 /\ addr <= 32767 THEN
    (IF mp.prgRamEnable THEN At(mp.prgRam, addr - 24576) ELSE 0)
  ELSE IF addr >= 32768 THEN
    (IF mp.prgBankCount = 0 THEN 0
     ELSE RomAt(mp.prgRom,
                (mp.prgMap[(addr - 32768) \div 8192] % mp.prgBankCount) * 8192
                  + (addr % 8192)))
  ELSE 0

\* $8001: bank data; R6 and R7 are reduced modulo the bank count
bankData(mp, value) ==
  IF mp.bankSelect \in {6, 7} THEN
    recomputePrgMap([mp EXCEPT !.bankRegs[mp.bankSelect] =
      IF mp.prgBankCount > 0 THEN value % mp.prgBankCount ELSE 0])
  ELSE recomputeChrMap([mp EXCEPT !.bankRegs[mp.bankSelect] = value])

\* mutant: enabling with the counter at 0 raises the IRQ at once
irqControl_enableFires(mp, addr) ==
  IF addr % 2 = 0 THEN [mp EXCEPT !.irqEnabled = FALSE, !.irqPending = FALSE]
  ELSE [mp EXCEPT !.irqEnabled = TRUE, !.irqPending = @ \/ mp.irqCounter = 0]

\* mutant: any write to $E000-$FFFF acknowledges
irqControl_oddAcks(mp, addr) ==
  [mp EXCEPT !.irqEnabled = (addr % 2 = 1), !.irqPending = FALSE]

\* $E000 (even): disable and acknowledge; $E001 (odd): enable
irqControl(mp, addr) ==
  IF addr % 2 = 0 THEN [mp EXCEPT !.irqEnabled = FALSE, !.irqPending = FALSE]
  ELSE [mp EXCEPT !.irqEnabled = TRUE]

Mapper4_cpuWrite(mp, addr, value) ==
  IF addr >= 24576 /\ addr <= 32767 THEN
    (IF ~mp.prgRamEnable \/ mp.prgRamWriteProtect THEN mp
     ELSE [mp EXCEPT !.prgRam = Put(@, addr - 24576, value)])
  ELSE IF addr >= 32768 /\ addr <= 40959 THEN
    (IF addr % 2 = 0
     THEN recomputeChrMap(recomputePrgMap(
            [mp EXCEPT !.bankSelect = value % 8,
                       !.prgMode = (value \div 64) % 2,
                       !.chrMode = (value \div 128) % 2]))
     ELSE bankData(mp, value))
  ELSE IF addr >= 40960 /\ addr <= 49151 THEN
    (IF addr % 2 = 0
     THEN [mp EXCEPT !.mirroring = IF value % 2 = 1 THEN "Vertical" ELSE "Horizontal"]
     ELSE [mp EXCEPT !.prgRamWriteProtect = (BitAnd(value, 64) # 0),
                     !.prgRamEnable = (BitAnd(value, 128) # 0)])
  ELSE IF addr >= 49152 /\ addr <= 57343 THEN
    (IF addr % 2 = 0 THEN [mp EXCEPT !.irqLatch = value]
     ELSE [mp EXCEPT !.irqReload = TRUE, !.irqCounter = 0])
  ELSE IF addr >= 57344 THEN irqControl(mp, addr)
  ELSE mp

\* mutant: a reload does not clear the reload flag
clockIrqCounter_keepsReload(mp) ==
  IF mp.irqReload \/ mp.irqCounter = 0 THEN
    [mp EXCEPT !.irqCounter = mp.irqLatch,
               !.irqPending = @ \/ (mp.irqEnabled /\ mp.irqLatch = 0),
               !.clocks = @ + 1]
  ELSE
    [mp EXCEPT !.irqCounter = (@ - 1) % 256,
               !.irqPending = @ \/ (mp.irqEnabled /\ (mp.irqCounter - 1) % 256 = 0),
               !.clocks = @ + 1]

\* justReloaded is the first branch: there the counter is the latch, and the
\* IRQ is raised at counter 0 only if the latch is 0
clockIrqCounter(mp) ==
  IF mp.irqReload \/ mp.irqCounter = 0 THEN
    [mp EXCEPT !.irqCounter = mp.irqLatch,
               !.irqReload = FALSE,
               !.irqPending = @ \/ (mp.irqEnabled /\ mp.irqLatch = 0),
               !.clocks = @ + 1]
  ELSE
    [mp EXCEPT !.irqCounter = (@ - 1) % 256,
               !.irqPending = @ \/ (mp.irqEnabled /\ (mp.irqCounter - 1) % 256 = 0),
               !.clocks = @ + 1]

\* mutant: the length of the low streak is not looked at
risingA12_anyStreak(mp) ==
  IF mp.a12Cooldown = 0
  THEN [clockIrqCounter(mp) EXCEPT !.a12Cooldown = 8, !.a12LowStreak = 0]
  ELSE [mp EXCEPT !.a12LowStreak = 0]

\* the rising edge of trackA12, on the streak and cooldown already updated
risingA12(mp) ==
  IF mp.a12LowStreak >= 8 /\ mp.a12Cooldown = 0
  THEN [clockIrqCounter(mp) EXCEPT !.a12Cooldown = 8, !.a12LowStreak = 0]
  ELSE [mp EXCEPT !.a12LowStreak = 0]

trackA12(mp, addr) ==
  [(IF mp.lastA12 = 0 /\ (addr \div 4096) % 2 = 1
    THEN risingA12([mp EXCEPT !.a12Cooldown = IF @ > 0 THEN @ - 1 ELSE @])
    ELSE [mp EXCEPT !.a12Cooldown = IF @ > 0 THEN @ - 1 ELSE @,
                    !.a12LowStreak = IF (addr \div 4096) % 2 = 0 THEN @ + 1 ELSE @])
   EXCEPT !.lastA12 = (addr \div 4096) % 2]

chrOffset(mp, addr) ==
  (mp.chrMap1k[(addr \div 1024) % 8] % mp.chrBankCount1k) * 1024 + (addr % 1024)

\* the value ppuRead returns; what it does to the mapper is Mapper4_ppuTap
Mapper4_ppuRead(mp, addr) ==
  IF addr % 16384 >= 8192 \/ mp.chrBankCount1k = 0 THEN 0
  ELSE IF mp.chrIsRam THEN At(mp.chrRam, chrOffset(mp, addr % 16384))
  ELSE RomAt(mp.chrRom, chrOffset(mp, addr % 16384))

Mapper4_ppuTap(mp, addr) ==
  IF addr % 16384 < 8192 THEN trackA12(mp, addr % 16384) ELSE mp

Mapper4_ppuWrite(mp, addr, value) ==
  IF addr % 16384 >= 8192 THEN mp
  ELSE IF ~mp.chrIsRam \/ mp.chrBankCount1k = 0 THEN trackA12(mp, addr % 16384)
  ELSE [trackA12(mp, addr % 16384) EXCEPT
          !.chrRam = Put(@, chrOffset(mp, addr % 16384), value)]

consumeIrq(mp) == mp.irqPending

(***************************************************************************)
(* Mapper1 (MMC1).  prg and chr are ROM images [size, unit]; a cartridge   *)
(* without CHR gets 8 KiB of CHR-RAM.                                      *)
(***************************************************************************)
\* x & m, where m is a bank count or a length minus one (-1 when it is 0)
Mask(x, m) == IF m < 0 THEN x ELSE BitAnd(x, m)

chrLength(mp) == IF mp.hasChrRam THEN 8192 ELSE mp.chr.size

prgBankCount16k(mp) == mp.prg.size \div 16384
prgBankMask16k(mp) == prgBankCount16k(mp) - 1
chrBankCount4k(mp) == chrLength(mp) \div 4096
chrBankMask4k(mp) == chrBankCount4k(mp) - 1

\* idx & (this.prg.length - 1)
prgIndex(mp, bank16k, offsetIn16k) ==
  Mask(Mask(bank16k, prgBankMask16k(mp)) * 16384 + (offsetIn16k % 16384),
       mp.prg.size - 1)

readPrgFromBank(mp, bank16k, offsetIn16k) ==
  RomAt(mp.prg, prgIndex(mp, bank16k, offsetIn16k))

applyControlSideEffects(mp) ==
  [mp EXCEPT !.mirroring = IF mp.control % 4 \in {2, 1} THEN "Vertical"
                           ELSE "Horizontal"]

\* updateBanks, the CHR half
updateChr(mp) ==
  IF (mp.control \div 16) % 2 = 0 THEN
    [mp EXCEPT !.chr4kLo = Mask((mp.chrBank0 \div 2) * 2, chrBankMask4k(mp)),
               !.chr4kHi = Mask(Mask((mp.chrBank0 \div 2) * 2, chrBankMask4k(mp)) + 1,
                                chrBankMask4k(mp))]
  ELSE
    [mp EXCEPT !.chr4kLo = Mask(mp.chrBank0, chrBankMask4k(mp)),
               !.chr4kHi = Mask(mp.chrBank1, chrBankMask4k(mp))]

\* mutant: PRG mode 2 is taken for mode 3
updatePrg_mode2As3(mp) ==
  IF (mp.control \div 4) % 4 \in {0, 1} THEN
    [mp EXCEPT !.prgBankLo = Mask((mp.prgBank \div 2) * 2, prgBankMask16k(mp)),
               !.prgBankHi = Mask(Mask((mp.prgBank \div 2) * 2, prgBankMask16k(mp)) + 1,
                                  prgBankMask16k(mp))]
  ELSE
    [mp EXCEPT !.prgBankLo = Mask(mp.prgBank, prgBankMask16k(mp)),
               !.prgBankHi = Mask(prgBankCount16k(mp) - 1, prgBankMask16k(mp))]

\* updateBanks, the PRG half
updatePrg(mp) ==
  IF (mp.control \div 4) % 4 \in {0, 1} THEN
    [mp EXCEPT !.prgBankLo = Mask((mp.prgBank \div 2) * 2, prgBankMask16k(mp)),
               !.prgBankHi = Mask(Mask((mp.prgBank \div 2) * 2, prgBankMask16k(mp)) + 1,
                                  prgBankMask16k(mp))]
  ELSE IF (mp.control \div 4) % 4 = 2 THEN
    [mp EXCEPT !.prgBankLo = 0,
               !.prgBankHi = Mask(mp.prgBank, prgBankMask16k(mp))]
  ELSE
    [mp EXCEPT !.prgBankLo = Mask(mp.prgBank, prgBankMask16k(mp)),
               !.prgBankHi = Mask(prgBankCount16k(mp) - 1, prgBankMask16k(mp))]

updateBanks(mp) == updatePrg(updateChr(mp))

Mapper1_reset(mp) ==
  updateBanks([mp EXCEPT !.shift = 16, !.writes = 0, !.control = 12,
                         !.chrBank0 = 0, !.chrBank1 = 0, !.prgBank = 0])

Mapper1_new(prg, chr, defaultMirroring) ==
  Mapper1_reset(
    [kind |-> "mmc1", prg |-> prg, chr |-> chr, chrRam |-> Empty,
     hasChrRam |-> (chr.size = 0),
     control |-> 12, chrBank0 |-> 0, chrBank1 |-> 0, prgBank |-> 0,
     prgBankLo |-> 0, prgBankHi |-> 0, chr4kLo |-> 0, chr4kHi |-> 1,
     mirroring |-> defaultMirroring, shift |-> 16, writes |-> 0])

Mapper1_cpuRead(mp, addr) ==
  IF addr >= 32768 THEN
    (IF addr - 32768 < 16384 THEN readPrgFromBank(mp, mp.prgBankLo, addr - 32768)
     ELSE readPrgFromBank(mp, mp.prgBankHi, addr - 49152))
  ELSE 0

\* mutant: the bits enter at the low end
shiftIn_msbFirst(mp, value) == ((mp.shift * 2) % 32) + (value % 2)

\* shift = (shift >> 1) | (inBit << 4)
shiftIn(mp, value) == BitOr(mp.shift \div 2, (value % 2) * 16)

\* the fifth write: the register of address bits 14..13 takes regVal
commit(mp, addr, regVal) ==
  [updateBanks(
     IF (addr \div 8192) % 4 = 0
       THEN applyControlSideEffects([mp EXCEPT !.control = regVal])
     ELSE IF (addr \div 8192) % 4 = 1 THEN [mp EXCEPT !.chrBank0 = regVal]
     ELSE IF (addr \div 8192) % 4 = 2 THEN [mp EXCEPT !.chrBank1 = regVal]
     ELSE [mp EXCEPT !.prgBank = regVal % 16])
   EXCEPT !.shift = 16, !.writes = 0]

Mapper1_cpuWrite(mp, addr, value) ==
  IF addr < 32768 THEN mp
  ELSE IF value >= 128 THEN
    updateBanks(applyControlSideEffects(
      [mp EXCEPT !.shift = 16, !.writes = 0, !.control = BitOr(@, 12)]))
  ELSE IF mp.writes + 1 = 5 THEN commit(mp, addr, shiftIn(mp, value) % 32)
  ELSE [mp EXCEPT !.shift = shiftIn(mp, value), !.writes = @ + 1]

chrIndex(mp, addr) ==
  IF addr < 4096 THEN Mask(mp.chr4kLo * 4096 + addr, chrLength(mp) - 1)
  ELSE Mask(mp.chr4kHi * 4096 + (addr - 4096), chrLength(mp) - 1)

Mapper1_ppuRead(mp, addr) ==
  IF mp.hasChrRam THEN At(mp.chrRam, chrIndex(mp, addr % 8192))
  ELSE RomAt(mp.chr, chrIndex(mp, addr % 8192))

Mapper1_ppuWrite(mp, addr, value) ==
  IF ~mp.hasChrRam THEN mp
  ELSE [mp EXCEPT !.chrRam = Put(@, chrIndex(mp, addr % 8192), value)]

(***************************************************************************)
(* Mapper2 (UxROM).  prgRom and chr are ROM images [size, unit]; a         *)
(* cartridge without CHR gets 8 KiB of CHR-RAM.                            *)
(***************************************************************************)
Mapper2_new(prgRom, chrRom, mirroring) ==
  [kind |-> "uxrom", prgRom |-> prgRom, prgRam |-> Empty,
   chr |-> chrRom, chrRam |-> Empty, chrIsRam |-> (chrRom.size = 0),
   prgBankCount16k |-> prgRom.size \div 16384, selectedBank |-> 0,
   fixedLastBank |-> IF prgRom.size \div 16384 > 1 THEN (prgRom.size \div 16384) - 1 ELSE 0,
   mirroring |-> mirroring]

Mapper2_reset(mp) ==
  [mp EXCEPT !.prgRam = Empty, !.chrRam = Empty, !.selectedBank = 0]

Mapper2_cpuRead(mp, addr) ==
  IF addr >= 24576 /\ addr <= 32767 THEN At(mp.prgRam, addr - 24576)
  ELSE IF addr >= 32768 THEN
    (IF mp.prgBankCount16k = 0 THEN 0
     ELSE RomAt(mp.prgRom,
                (IF addr >= 49152 THEN mp.fixedLastBank
                 ELSE mp.selectedBank % mp.prgBankCount16k) * 16384 + (addr % 16384)))
  ELSE 0

\* mutant: the bank register answers in $8000-$BFFF only
Mapper2_cpuWrite_lowOnly(mp, addr, value) ==
  IF addr >= 24576 /\ addr <= 32767
    THEN [mp EXCEPT !.prgRam = Put(@, addr - 24576, value)]
  ELSE IF addr >= 32768 /\ addr < 49152 THEN
    [mp EXCEPT !.selectedBank =
       IF mp.prgBankCount16k > 0 THEN value % mp.prgBankCount16k ELSE 0]
  ELSE mp

Mapper2_cpuWrite(mp, addr, value) ==
  IF addr >= 24576 /\ addr <= 32767
    THEN [mp EXCEPT !.prgRam = Put(@, addr - 24576, value)]
  ELSE IF addr >= 32768 THEN
    [mp EXCEPT !.selectedBank =
       IF mp.prgBankCount16k > 0 THEN value % mp.prgBankCount16k ELSE 0]
  ELSE mp

Mapper2_ppuRead(mp, addr) ==
  IF addr % 16384 >= 8192 THEN 0
  ELSE IF mp.chrIsRam THEN At(mp.chrRam, addr % 16384)
  ELSE IF addr % 16384 < mp.chr.size THEN RomAt(mp.chr, addr % 16384)
  ELSE 0

Mapper2_ppuWrite(mp, addr, value) ==
  IF addr % 16384 < 8192 /\ mp.chrIsRam
    THEN [mp EXCEPT !.chrRam = Put(@, addr % 16384, value)]
  ELSE mp

(***************************************************************************)
(* The Mapper interface: the calls Memory and Ppu make on the cartridge    *)
(* attached, whichever class it is.                                        *)
(***************************************************************************)
Mapper_cpuRead(mp, addr) ==
  CASE mp.kind = "nrom" -> Mapper0_cpuRead(mp, addr)
    [] mp.kind = "mmc3" -> Mapper4_cpuRead(mp, addr)
    [] mp.kind = "mmc1" -> Mapper1_cpuRead(mp, addr)
    [] mp.kind = "uxrom" -> Mapper2_cpuRead(mp, addr)

Mapper_cpuWrite(mp, addr, value) ==
  CASE mp.kind = "nrom" -> Mapper0_cpuWrite(mp, addr, value)
    [] mp.kind = "mmc3" -> Mapper4_cpuWrite(mp, addr, value)
    [] mp.kind = "mmc1" -> Mapper1_cpuWrite(mp, addr, value)
    [] mp.kind = "uxrom" -> Mapper2_cpuWrite(mp, addr, value)

Mapper_ppuRead(mp, addr) ==
  CASE mp.kind = "nrom" -> Mapper0_ppuRead(mp, addr)
    [] mp.kind = "mmc3" -> Mapper4_ppuRead(mp, addr)
    [] mp.kind = "mmc1" -> Mapper1_ppuRead(mp, addr)
    [] mp.kind = "uxrom" -> Mapper2_ppuRead(mp, addr)

\* the mapper after a ppuRead
Mapper_ppuTap(mp, addr) ==
  IF mp.kind = "mmc3" THEN Mapper4_ppuTap(mp, addr) ELSE mp

Mapper_ppuWrite(mp, addr, value) ==
  CASE mp.kind = "nrom" -> Mapper0_ppuWrite(mp, addr, value)
    [] mp.kind = "mmc3" -> Mapper4_ppuWrite(mp, addr, value)
    [] mp.kind = "mmc1" -> Mapper1_ppuWrite(mp, addr, value)
    [] mp.kind = "uxrom" -> Mapper2_ppuWrite(mp, addr, value)

(***************************************************************************)
(* Controller (io/Controller.ts).  padh is the history of the pad: snap is *)
(* the set of buttons held when the strobe last went from 1 to 0 (latched  *)
(* is FALSE until that has happened), n the readBit calls made since, idx  *)
(* the shiftIndex before the last call, and the counts of the calls made.  *)
(***************************************************************************)
BUTTON_ORDER == <<"A", "B", "Select", "Start", "Up", "Down", "Left", "Right">>

ButtonNames == {BUTTON_ORDER[i] : i \in 1..8}

\* a button given by name or by its ControllerButton number
toButtonName(btn) ==
  IF "num" \in DOMAIN btn
  THEN (IF btn.num \in 0..7 THEN BUTTON_ORDER[btn.num + 1] ELSE "A")
  ELSE btn.name

RECURSIVE packFrom(_, _)
packFrom(buttons, i) ==
  IF i > 8 THEN 0
  ELSE (IF buttons[BUTTON_ORDER[i]] THEN 1 ELSE 0) + 2 * packFrom(buttons, i + 1)

packButtons(c) == packFrom(c.buttons, 1) % 256

Controller_new ==
  [strobe |-> FALSE, shiftIndex |-> 0, latchedByte |-> 0,
   buttons |-> [b \in ButtonNames |-> FALSE]]

setButton(c, name, pressed) ==
  IF c.strobe
  THEN [c EXCEPT !.buttons[toButtonName(name)] = pressed,
                 !.latchedByte = packButtons([c EXCEPT
                                   !.buttons[toButtonName(name)] = pressed]),
                 !.shiftIndex = 0]
  ELSE [c EXCEPT !.buttons[toButtonName(name)] = pressed]

\* mutant: every write of 0 latches the buttons and restarts the sequence
writeStrobe_zeroLatches(c, value) ==
  IF value % 2 # 0
  THEN [c EXCEPT !.strobe = TRUE, !.latchedByte = packButtons(c), !.shiftIndex = 0]
  ELSE [c EXCEPT !.strobe = FALSE, !.latchedByte = packButtons(c), !.shiftIndex = 0]

writeStrobe(c, value) ==
  IF value % 2 # 0
  THEN [c EXCEPT !.strobe = TRUE, !.latchedByte = packButtons(c), !.shiftIndex = 0]
  ELSE IF c.strobe
  THEN [c EXCEPT !.strobe = FALSE, !.latchedByte = packButtons(c), !.shiftIndex = 0]
  ELSE [c EXCEPT !.strobe = FALSE]

\* mutant: the snapshot is shifted out from bit 7 down
readBit_msbFirst(c) ==
  IF c.strobe THEN [val |-> IF c.buttons["A"] THEN 1 ELSE 0, c |-> c]
  ELSE IF c.shiftIndex < 8
  THEN [val |-> (c.latchedByte \div (2 ^ (7 - c.shiftIndex))) % 2,
        c |-> [c EXCEPT !.shiftIndex = @ + 1]]
  ELSE [val |-> 1, c |-> c]

\* returns [val, c]
readBit(c) ==
  IF c.strobe THEN [val |-> IF c.buttons["A"] THEN 1 ELSE 0, c |-> c]
  ELSE IF c.shiftIndex < 8
  THEN [val |-> (c.latchedByte \div (2 ^ c.shiftIndex)) % 2,
        c |-> [c EXCEPT !.shiftIndex = @ + 1]]
  ELSE [val |-> 1, c |-> c]

\* clearControllerStates: setButton(b, false) for the eight buttons
RECURSIVE clearFrom(_, _)
clearFrom(c, i) ==
  IF i > 7 THEN c ELSE clearFrom(setButton(c, [num |-> i], FALSE), i + 1)

clearControllerStates(c) == clearFrom(c, 0)

PadH0 == [latched |-> FALSE, snap |-> {}, n |-> 0, idx |-> 0,
          presses |-> 0, strobes |-> 0, reads |-> 0]

(***************************************************************************)
(* Ppu: memory space $0000-$3FFF                                           *)
(***************************************************************************)
\* mutant: the cartridge's mirroring is not consulted
resolveNametableAddr_alwaysVertical(mp, addr) ==
  ((((addr - 8192) % 4096) \div 1024) % 2) * 1024 + ((addr - 8192) % 1024)

resolveNametableAddr(mp, addr) ==
  IF mp.kind # "none" /\ mp.mirroring = "Horizontal"
  THEN ((((addr - 8192) % 4096) \div 1024) \div 2) * 1024 + ((addr - 8192) % 1024)
  ELSE ((((addr - 8192) % 4096) \div 1024) % 2) * 1024 + ((addr - 8192) % 1024)

\* mutant: $3F20-$3FFF are not folded onto the 32 entries
resolvePaletteAddr_noFold(addr) ==
  IF (addr - 16128) \in {16, 20, 24, 28}
  THEN (addr - 16128) - 16
  ELSE addr - 16128

resolvePaletteAddr(addr) ==
  IF ((addr - 16128) % 32) \in {16, 20, 24, 28}
  THEN ((addr - 16128) % 32) - 16
  ELSE (addr - 16128) % 32

readPpuMemory(m, addr0) ==
  LET addr == addr0 % 16384
  IN  IF addr < 8192 THEN
        (IF m.mapper.kind = "none" THEN 0 ELSE Mapper_ppuRead(m.mapper, addr))
      ELSE IF addr < 16128 THEN At(m.ppu.ciram, resolveNametableAddr(m.mapper, addr))
      ELSE At(m.ppu.palettes, resolvePaletteAddr(addr))

\* the machine after readPpuMemory(addr0): a pattern read is a ppuRead of the
\* cartridge, which may keep state of its own
tapPpuMemory(m, addr0) ==
  IF addr0 % 16384 < 8192 /\ m.mapper.kind # "none"
  THEN [m EXCEPT !.mapper = Mapper_ppuTap(@, addr0 % 16384)]
  ELSE m

\* a palette write; entries $00/$04/$08/$0C are stored in their $10 mirror too
writePalette(pals, pal, value) ==
  IF pal % 4 = 0 THEN Put(Put(pals, pal, value), (pal + 16) % 32, value)
  ELSE Put(pals, pal, value)

writePpuMemory(m, addr0, value) ==
  LET addr == addr0 % 16384
  IN  IF addr < 8192 THEN
        (IF m.mapper.kind = "none" THEN m
         ELSE [m EXCEPT !.mapper = Mapper_ppuWrite(@, addr, value)])
      ELSE IF addr < 16128 THEN
        [m EXCEPT !.ppu.ciram = Put(@, resolveNametableAddr(m.mapper, addr), value)]
      ELSE
        [m EXCEPT !.ppu.palettes = writePalette(@, resolvePaletteAddr(addr), value)]

incrementV(p) ==
  [p EXCEPT !.v = (@ + (IF BitAnd(p.ppuctrl, 4) # 0 THEN 32 ELSE 1)) % 32768]

\* mutant: every read returns the byte at v, the buffer is not in the path
readPpuData_unbuffered(m) ==
  LET vAddr == m.ppu.v % 16384
  IN  [val |-> readPpuMemory(m, vAddr),
       m |-> [m EXCEPT !.ppu =
                incrementV([m.ppu EXCEPT !.vramBuffer =
                  readPpuMemory(m, IF vAddr < 16128 THEN vAddr
                                   ELSE (vAddr - 4096) % 16384)])]]

\* returns [val, m]
readPpuData(m) ==
  LET vAddr == m.ppu.v % 16384
  IN  [val |-> IF vAddr < 16128 THEN m.ppu.vramBuffer ELSE readPpuMemory(m, vAddr),
       m |-> tapPpuMemory(
               [m EXCEPT !.ppu =
                  incrementV([m.ppu EXCEPT !.vramBuffer =
                    readPpuMemory(m, IF vAddr < 16128 THEN vAddr
                                     ELSE (vAddr - 4096) % 16384)])],
               vAddr)]

writePpuData(m, value) ==
  [writePpuMemory(m, m.ppu.v % 16384, value) EXCEPT !.ppu = incrementV(@)]

(***************************************************************************)
(* Ppu: registers $2000-$2007                                              *)
(***************************************************************************)
\* mutant: the PPUSTATUS read leaves the write toggle alone
readRegister_keepsToggle(m, addr) ==
  LET reg == 8192 + (addr % 8)
  IN  IF reg = 8194 THEN
        [val |-> BitAnd(m.ppu.ppustatus, 224),
         m |-> [m EXCEPT !.ppu.ppustatus = BitAnd(@, 127),
                         !.ppu.nmiOccurred = FALSE]]
      ELSE IF reg = 8196 THEN [val |-> At(m.ppu.oam, m.ppu.oamaddr % 256), m |-> m]
      ELSE IF reg = 8199 THEN readPpuData(m)
      ELSE [val |-> 0, m |-> m]

\* returns [val, m]
readRegister(m, addr) ==
  LET reg == 8192 + (addr % 8)
  IN  IF reg = 8194 THEN
        [val |-> BitAnd(m.ppu.ppustatus, 224),
         m |-> [m EXCEPT !.ppu.ppustatus = BitAnd(@, 127),
                         !.ppu.w = FALSE,
                         !.ppu.nmiOccurred = FALSE]]
      ELSE IF reg = 8196 THEN [val |-> At(m.ppu.oam, m.ppu.oamaddr % 256), m |-> m]
      ELSE IF reg = 8199 THEN readPpuData(m)
      ELSE [val |-> 0, m |-> m]

\* mutant: the second write replaces the nametable bits of t as well
PPUSCROLL_clearsNametable(p, value) ==
  IF ~p.w THEN
    [p EXCEPT !.x = value % 8,
              !.t = BitClear(@, 31) + ((value \div 8) % 32),
              !.w = TRUE]
  ELSE
    [p EXCEPT !.t = BitClear(@, 32736) + ((value \div 8) % 32) * 32
                      + (value % 8) * 4096,
              !.w = FALSE]

\* case 0x2005 of writeRegister
PPUSCROLL(p, value) ==
  IF ~p.w THEN
    [p EXCEPT !.x = value % 8,
              !.t = BitClear(@, 31) + ((value \div 8) % 32),
              !.w = TRUE]
  ELSE
    [p EXCEPT !.t = BitClear(@, 29664) + ((value \div 8) % 32) * 32
                      + (value % 8) * 4096,
              !.w = FALSE]

\* mutant: the first write copies t to v as the second does
PPUADDR_eagerCopy(p, value) ==
  IF ~p.w THEN
    [p EXCEPT !.t = (BitAnd(@, 255) + (value % 64) * 256) % 32768,
              !.v = (BitAnd(p.t, 255) + (value % 64) * 256) % 32768,
              !.w = TRUE]
  ELSE
    [p EXCEPT !.t = BitAnd(@, 32512) + value,
              !.v = (BitAnd(p.t, 32512) + value) % 32768,
              !.w = FALSE]

\* case 0x2006 of writeRegister
PPUADDR(p, value) ==
  IF ~p.w THEN
    [p EXCEPT !.t = (BitAnd(@, 255) + (value % 64) * 256) % 32768,
              !.w = TRUE]
  ELSE
    [p EXCEPT !.t = BitAnd(@, 32512) + value,
              !.v = (BitAnd(p.t, 32512) + value) % 32768,
              !.w = FALSE]

writeRegister(m, addr, value) ==
  LET reg == 8192 + (addr % 8)
  IN  IF reg = 8192 THEN
        [m EXCEPT !.ppu.ppuctrl = value,
                  !.ppu.nmiEnabled = (BitAnd(value, 128) # 0),
                  !.ppu.t = BitClear(@, 3072) + (value % 4) * 1024]
      ELSE IF reg = 8193 THEN [m EXCEPT !.ppu.ppumask = value]
      ELSE IF reg = 8195 THEN [m EXCEPT !.ppu.oamaddr = value]
      ELSE IF reg = 8196 THEN
        [m EXCEPT !.ppu.oam = Put(@, m.ppu.oamaddr % 256, value),
                  !.ppu.oamaddr = (@ + 1) % 256]
      ELSE IF reg = 8197 THEN [m EXCEPT !.ppu = PPUSCROLL(@, value)]
      ELSE IF reg = 8198 THEN [m EXCEPT !.ppu = PPUADDR(@, value)]
      ELSE IF reg = 8199 THEN writePpuData(m, value)
      ELSE m

(***************************************************************************)
(* Memory: the CPU bus                                                     *)
(***************************************************************************)
\* mutant: only $2000-$2007 reach the PPU, the mirrors read as open bus
Memory_read_noRegMirror(m, addr0) ==
  LET addr == addr0 % 65536
  IN  IF addr < 8192 THEN [val |-> At(m.ram, addr % 2048), m |-> m]
      ELSE IF addr <= 8199 THEN readRegister(m, addr)
      ELSE IF addr <= 16415 THEN [val |-> 0, m |-> m]
      ELSE IF m.mapper.kind # "none" /\ addr >= 24576
        THEN [val |-> Mapper_cpuRead(m.mapper, addr), m |-> m]
      ELSE [val |-> 0, m |-> m]

\* returns [val, m]
Memory_read(m, addr0) ==
  LET addr == addr0 % 65536
  IN  IF addr < 8192 THEN [val |-> At(m.ram, addr % 2048), m |-> m]
      ELSE IF addr <= 16383 THEN readRegister(m, 8192 + (addr % 8))
      ELSE IF addr >= 16384 /\ addr <= 16407 THEN [val |-> 0, m |-> m]
      ELSE IF addr >= 16408 /\ addr <= 16415 THEN [val |-> 0, m |-> m]
      ELSE IF m.mapper.kind # "none" /\ addr >= 24576
        THEN [val |-> Mapper_cpuRead(m.mapper, addr), m |-> m]
      ELSE [val |-> 0, m |-> m]

\* mutant: the RAM index is not reduced modulo $800
Memory_write_noMirror(m, addr0, value0) ==
  LET addr == addr0 % 65536
      value == value0 % 256
  IN  IF addr < 8192 THEN [m EXCEPT !.ram = Put(@, addr, value)]
      ELSE IF addr <= 16383 THEN writeRegister(m, 8192 + (addr % 8), value)
      ELSE IF addr >= 16384 /\ addr <= 16415 THEN m
      ELSE IF m.mapper.kind # "none" /\ addr >= 24576
        THEN [m EXCEPT !.mapper = Mapper_cpuWrite(@, addr, value)]
      ELSE m

Memory_write(m, addr0, value0) ==
  LET addr == addr0 % 65536
      value == value0 % 256
  IN  IF addr < 8192 THEN [m EXCEPT !.ram = Put(@, addr % 2048, value)]
      ELSE IF addr <= 16383 THEN writeRegister(m, 8192 + (addr % 8), value)
      ELSE IF addr >= 16384 /\ addr <= 16407 THEN m
      ELSE IF addr >= 16408 /\ addr <= 16415 THEN m
      ELSE IF m.mapper.kind # "none" /\ addr >= 24576
        THEN [m EXCEPT !.mapper = Mapper_cpuWrite(@, addr, value)]
      ELSE m

\* value of a read, for addresses outside the PPU register window
Peek(m, addr) == Memory_read(m, addr).val

(***************************************************************************)
(* Cpu6502: flags and stack helpers.  m.shadow is a history of the pushes  *)
(* that have not been pulled yet (value, SP at the push); m.pulled is the  *)
(* history of the pulls made by the current operation.                     *)
(***************************************************************************)
getFlag(P, flag) == BitAnd(P, flag) # 0

setFlag(P, flag, value) == IF value THEN BitOr(P, flag) ELSE BitClear(P, flag)

setZN(P, v) ==
  setFlag(setFlag(P, Zero, (v % 256) = 0), Negative, BitAnd(v, 128) # 0)

NoEntry == [v |-> -1, sp |-> -1, jsr |-> -1]

push(m, value) ==
  [Memory_write(m, 256 + (m.cpu.SP % 256), value % 256) EXCEPT
     !.cpu.SP = (@ - 1) % 256,
     !.shadow = Append(@, [v |-> value % 256, sp |-> m.cpu.SP, jsr |-> -1])]

\* history of a pull: r is what the read returned, with SP already moved
notePull(r) ==
  [val |-> r.val % 256,
   m |-> [r.m EXCEPT
            !.shadow = IF @ = <<>> THEN <<>> ELSE SubSeq(@, 1, Len(@) - 1),
            !.pulled = Append(@, [val |-> r.val % 256, sp |-> r.m.cpu.SP,
                                  e |-> IF r.m.shadow = <<>> THEN NoEntry
                                        ELSE r.m.shadow[Len(r.m.shadow)]])]]

\* mutant: reads the cell at SP, then increments
pull_postIncrement(m) ==
  notePull([Memory_read(m, 256 + (m.cpu.SP % 256)) EXCEPT
              !.m.cpu.SP = (@ + 1) % 256])

\* returns [val, m]
pull(m) ==
  notePull(Memory_read([m EXCEPT !.cpu.SP = (@ + 1) % 256],
                       256 + ((m.cpu.SP + 1) % 256)))

\* the 16-bit word of a low byte and the result [val, m] of reading the high one
joinWord(lo, hi) == [val |-> (hi.val * 256 + lo) % 65536, m |-> hi.m]

\* after the low byte lo = [val, m] was read at addr - 1: the high byte
readWordHi(lo, addr) == joinWord(lo.val, Memory_read(lo.m, addr))

\* the two reads of a vector, low byte first; returns [val, m]
readWord(m, addr) == readWordHi(Memory_read(m, addr), addr + 1)

\* this.PC = the word just read
setPC(w) == [w.m EXCEPT !.cpu.PC = w.val % 65536]

(***************************************************************************)
(* Cpu6502: reset and interrupt entry                                      *)
(***************************************************************************)
\* mutant: PC is loaded from the vector at $FFFE/$FFFF
reset_irqVector(m) ==
  [setPC(readWord(m, 65534)) EXCEPT
     !.cpu.SP = 253,
     !.cpu.P = BitOr(@, Unused + InterruptDisable),
     !.shadow = <<>>]

reset(m) ==
  [setPC(readWord(m, 65532)) EXCEPT
     !.cpu.SP = 253,
     !.cpu.P = BitOr(@, Unused + InterruptDisable),
     !.shadow = <<>>]

flagOp(m, flag, value) == [m EXCEPT !.cpu.P = setFlag(@, flag, value)]

\* push PC high, PC low and the status byte; set I; load PC from the vector
interruptEntry(m, status, vector) ==
  setPC(readWord(
    flagOp(push(push(push(m, Hi(m.cpu.PC)), Lo(m.cpu.PC)), status),
           InterruptDisable, TRUE),
    vector))

\* mutant: the status byte is pushed with Break as it stands in P
nmi_keepsBreak(m) == interruptEntry(m, BitOr(m.cpu.P, Unused), 65530)

nmi(m) == interruptEntry(m, BitOr(BitClear(m.cpu.P, Break), Unused), 65530)

doIrqEntry(m, isBrk) ==
  interruptEntry(m, BitOr(BitClear(BitOr(m.cpu.P, Unused), Break),
                          IF isBrk THEN Break ELSE 0), 65534)

\* mutant: the entry is made whatever InterruptDisable is
irq_unmasked(m) == doIrqEntry(m, FALSE)

irq(m) == IF getFlag(m.cpu.P, InterruptDisable) THEN m ELSE doIrqEntry(m, FALSE)

(***************************************************************************)
(* Cpu6502: addressing and ALU helpers                                     *)
(***************************************************************************)
\* returns [val, m]
fetchByte(m) ==
  [Memory_read(m, m.cpu.PC) EXCEPT !.val = @ % 256,
                                   !.m.cpu.PC = (m.cpu.PC + 1) % 65536]

\* after the low byte: the high byte
fetchWordHi(lo) == joinWord(lo.val, fetchByte(lo.m))

\* returns [val, m]
fetchWord(m) == fetchWordHi(fetchByte(m))

\* returns [val, m]: the operand address
zp(m) == [fetchByte(m) EXCEPT !.val = @ % 256]

abs(m) == fetchWord(m)

\* this.memory.read(a) for the operand address a = [val, m]; returns [val, m]
readAt(a) == Memory_read(a.m, a.val)

\* this.memory.write(a, value) for the operand address a = [val, m]
writeAt(a, value) == Memory_write(a.m, a.val, value)

\* A, carry-in and operand are summed; C, V, Z, N follow the sum
ADC_sum(m, value, sum) ==
  [m EXCEPT
     !.cpu.A = sum % 256,
     !.cpu.P = setZN(
        setFlag(setFlag(@, Carry, sum > 255), Overflow,
                ((m.cpu.A \div 128) = (value \div 128))
                  /\ ((m.cpu.A \div 128) # ((sum % 256) \div 128))),
        sum % 256)]

\* ADC(value) for the fetched operand r = [val, m]
ADC(r) ==
  ADC_sum(r.m, r.val,
          r.m.cpu.A + r.val + (IF getFlag(r.m.cpu.P, Carry) THEN 1 ELSE 0))

KilOpcodes == {2, 18, 34, 50, 66, 82, 98, 114, 146, 178, 210, 242}

UnknownOpcodes ==
  {11, 35, 39, 43, 47, 51, 55, 59, 63, 67, 71, 75, 79, 83, 87, 91, 95, 99,
   103, 107, 111, 115, 119, 123, 127, 131, 135, 139, 143, 147, 151, 155, 156,
   158, 159, 163, 167, 171, 175, 179, 183, 187, 191, 195, 199, 203, 207, 211,
   215, 219, 223, 227, 231, 235, 239, 243, 247, 251, 255}

(***************************************************************************)
(* Cpu6502.step: one instruction.  Returns [m, thrown, opcode]; thrown is  *)
(* "" when the instruction completed, else the kind of Error raised.  The  *)
(* opcodes decoded here are the ones the cartridges below contain.         *)
(***************************************************************************)
\* this.A / this.X / this.Y = r.val; setZN; r is [val, m]
ld(r, reg) ==
  [r.m EXCEPT !.cpu[reg] = r.val % 256, !.cpu.P = setZN(@, r.val % 256)]

\* the value of a register as [val, m]
regVal(m, v) == [val |-> v, m |-> m]

\* mutant: P is the byte pulled, as it is
setP_raw(r) == [r.m EXCEPT !.cpu.P = r.val % 256]

\* this.P = (pulled | Unused) & 0xff; r is [val, m]
setP(r) == [r.m EXCEPT !.cpu.P = BitOr(r.val, Unused) % 256]

\* history: the two bytes on top of the shadow stack were pushed by the JSR at a
tagJsr(m, a) ==
  [m EXCEPT !.shadow = [i \in 1..Len(m.shadow) |->
                          IF i >= Len(m.shadow) - 1
                          THEN [m.shadow[i] EXCEPT !.jsr = a]
                          ELSE m.shadow[i]]]

\* JSR after its operand w = [val, m] was fetched; a is the opcode's address
JSR_call(w, a) ==
  tagJsr([push(push(w.m, Hi((w.m.cpu.PC - 1) % 65536)),
               Lo((w.m.cpu.PC - 1) % 65536))
            EXCEPT !.cpu.PC = w.val],
         a)

JSR(m) == JSR_call(abs(m), (m.cpu.PC - 1) % 65536)

\* after the low byte was pulled: the high byte
pullWordHi(lo) == joinWord(lo.val, pull(lo.m))

\* two pulls, low byte first; returns [val, m]
pullWord(m) == pullWordHi(pull(m))

\* mutant: continues at the pulled word itself
RTS_noIncrement(m) == setPC(pullWord(m))

RTS(m) == [setPC(pullWord(m)) EXCEPT !.cpu.PC = (@ + 1) % 65536]

\* mutant: the return address is pulled before the status byte
RTI_pcFirst(m) == setP(pull(setPC(pullWord(m))))

RTI(m) == setPC(pullWord(setP(pull(m))))

BRK(m) == doIrqEntry(m, TRUE)

exec(m, op) ==
  CASE op = 169 -> ld(fetchByte(m), "A")
    [] op = 162 -> ld(fetchByte(m), "X")
    [] op = 160 -> ld(fetchByte(m), "Y")
    [] op = 165 -> ld(readAt(zp(m)), "A")
    [] op = 173 -> ld(readAt(abs(m)), "A")
    [] op = 133 -> writeAt(zp(m), m.cpu.A)
    [] op = 141 -> writeAt(abs(m), m.cpu.A)
    [] op = 170 -> ld(regVal(m, m.cpu.A), "X")
    [] op = 168 -> ld(regVal(m, m.cpu.A), "Y")
    [] op = 138 -> ld(regVal(m, m.cpu.X), "A")
    [] op = 186 -> ld(regVal(m, m.cpu.SP), "X")
    [] op = 154 -> [m EXCEPT !.cpu.SP = m.cpu.X % 256, !.shadow = <<>>]
    [] op = 232 -> ld(regVal(m, (m.cpu.X + 1) % 256), "X")
    [] op = 202 -> ld(regVal(m, (m.cpu.X - 1) % 256), "X")
    [] op = 72  -> push(m, m.cpu.A)
    [] op = 104 -> ld(pull(m), "A")
    [] op = 8   -> push(m, BitOr(m.cpu.P, Break + Unused))
    [] op = 40  -> setP(pull(m))
    [] op = 105 -> ADC(fetchByte(m))
    [] op = 76  -> setPC(abs(m))
    [] op = 32  -> JSR(m)
    [] op = 96  -> RTS(m)
    [] op = 64  -> RTI(m)
    [] op = 24  -> flagOp(m, Carry, FALSE)
    [] op = 56  -> flagOp(m, Carry, TRUE)
    [] op = 88  -> flagOp(m, InterruptDisable, FALSE)
    [] op = 120 -> flagOp(m, InterruptDisable, TRUE)
    [] op = 184 -> flagOp(m, Overflow, FALSE)
    [] op = 216 -> flagOp(m, Decimal, FALSE)
    [] op = 248 -> flagOp(m, Decimal, TRUE)
    [] op = 0   -> BRK(m)
    [] op = 234 -> m

\* the switch on the opcode f = [val, m] that fetchByte returned
\* mutant: a KIL/JAM opcode is executed as a NOP
dispatch_kilAsNop(f) ==
  IF f.val \in KilOpcodes THEN [m |-> f.m, thrown |-> "", opcode |-> f.val]
  ELSE IF f.val \in UnknownOpcodes
    THEN [m |-> f.m, thrown |-> "Opcode desconhecido", opcode |-> f.val]
  ELSE [m |-> exec(f.m, f.val), thrown |-> "", opcode |-> f.val]

dispatch(f) ==
  IF f.val \in KilOpcodes THEN [m |-> f.m, thrown |-> "KIL/JAM", opcode |-> f.val]
  ELSE IF f.val \in UnknownOpcodes
    THEN [m |-> f.m, thrown |-> "Opcode desconhecido", opcode |-> f.val]
  ELSE [m |-> exec(f.m, f.val), thrown |-> "", opcode |-> f.val]

step(m) == dispatch(fetchByte(m))

\* what step() hands back to its caller: it is declared void, so the set of
\* cycle counts it reports is empty
stepCycles(r) == {}

(***************************************************************************)
(* Ppu: construction and timing                                            *)
(***************************************************************************)
Ppu_new ==
  [ppuctrl |-> 0, ppumask |-> 0, ppustatus |-> 0, oamaddr |-> 0,
   nmiOccurred |-> FALSE, nmiEnabled |-> FALSE,
   v |-> 0, t |-> 0, x |-> 0, w |-> FALSE,
   scanline |-> 0, cycle |-> 0, vramBuffer |-> 0,
   a12EdgeDoneThisScanline |-> FALSE,
   oam |-> Empty, ciram |-> Empty, palettes |-> Empty]

copyHorizontalBits(p) == [p EXCEPT !.v = BitClear(@, 1055) + BitAnd(p.t, 1055)]

copyVerticalBits(p) == [p EXCEPT !.v = BitClear(@, 31712) + BitAnd(p.t, 31712)]

\* a visible scanline with the background shown has not had its A12 edge yet
a12Due(p, hasMapper) ==
  /\ p.scanline >= 0 /\ p.scanline <= 239
  /\ BitAnd(p.ppumask, 8) # 0
  /\ ~p.a12EdgeDoneThisScanline
  /\ hasMapper

\* mutant: the edge is not recorded as done
a12Edge_notRecorded(p, hasMapper) == p

\* the synthesised A12 edge of a visible scanline, on the side of the PPU
a12Edge(p, hasMapper) ==
  IF a12Due(p, hasMapper) THEN [p EXCEPT !.a12EdgeDoneThisScanline = TRUE] ELSE p

\* the reads of the synthesis: m.ppuRead((i * 2) & 0x0FFE) for i = 0..15 ...
RECURSIVE synthLow(_, _)
synthLow(mp, i) ==
  IF i = 16 THEN mp ELSE synthLow(Mapper_ppuTap(mp, (i * 2) % 4096), i + 1)

\* ... and m.ppuRead(0x1000)
synthA12(mp) == Mapper_ppuTap(synthLow(mp, 0), 4096)

\* mutant: the NMI is latched at the start of every scanline
nextScanline_nmiEveryLine(p) ==
  [p EXCEPT !.cycle = 0,
            !.scanline = @ + 1,
            !.ppustatus = IF p.scanline + 1 = 241 THEN BitOr(@, 128) ELSE @,
            !.nmiOccurred = IF p.nmiEnabled THEN TRUE ELSE @,
            !.a12EdgeDoneThisScanline = FALSE]

\* cycle = 0; scanline++; VBlank and NMI at scanline 241
nextScanline(p) ==
  [p EXCEPT !.cycle = 0,
            !.scanline = @ + 1,
            !.ppustatus = IF p.scanline + 1 = 241 THEN BitOr(@, 128) ELSE @,
            !.nmiOccurred = IF p.scanline + 1 = 241 /\ p.nmiEnabled THEN TRUE ELSE @,
            !.a12EdgeDoneThisScanline = FALSE]

\* scanline 261 is the pre-render line -1; VBlank is cleared
wrapScanline(p) ==
  IF p.scanline >= 261
  THEN [p EXCEPT !.scanline = -1, !.ppustatus = BitClear(@, 128)]
  ELSE p

\* loopy copies at the start of a line
loopyCopy(p) ==
  IF BitAnd(p.ppumask, 8) = 0 THEN p
  ELSE IF p.scanline = -1 THEN copyVerticalBits(p)
  ELSE IF p.scanline >= 0 /\ p.scanline <= 239 THEN copyHorizontalBits(p)
  ELSE p

\* mutant: a line ends after 340 cycles
endOfLine_shortLine(p) ==
  IF p.cycle >= 340 THEN loopyCopy(wrapScanline(nextScanline(p))) ELSE p

endOfLine(p) ==
  IF p.cycle >= 341 THEN loopyCopy(wrapScanline(nextScanline(p))) ELSE p

Ppu_step(m) ==
  [m EXCEPT !.ppu = endOfLine(a12Edge([m.ppu EXCEPT !.cycle = @ + 1],
                                      m.mapper.kind # "none")),
            !.mapper = IF a12Due(m.ppu, m.mapper.kind # "none")
                       THEN synthA12(m.mapper) ELSE m.mapper]

Ppu_reset(p) == Ppu_new

(***************************************************************************)
(* main.ts: the driver                                                     *)
(***************************************************************************)
CPU_STEPS_PER_FRAME == 800
MAX_STEPS_PER_FRAME == 1000
PPU_STEPS_PER_CPU_STEP == 6

Min(a, b) == IF a < b THEN a ELSE b

\* mutant: an IRQ that finds InterruptDisable set is dropped
serviceMapperIrq_consumes(m) ==
  IF m.mapper.kind = "mmc3" /\ consumeIrq(m.mapper)
  THEN [irq(m) EXCEPT !.mapper.irqPending = FALSE] ELSE m

\* only Mapper4 exposes consumeIrq
serviceMapperIrq(m) ==
  IF m.mapper.kind = "mmc3" /\ consumeIrq(m.mapper) THEN irq(m) ELSE m

\* if (ppu.isNmiOccurred()) { cpu.nmi(); ppu.clearNmi() }
nmiIfOccurred(m) ==
  IF m.ppu.nmiOccurred THEN [nmi(m) EXCEPT !.ppu.nmiOccurred = FALSE] ELSE m

\* one iteration of the loop of ppuStepMany
ppuStepOnce(m) == serviceMapperIrq(nmiIfOccurred(Ppu_step(m)))

(***************************************************************************)
(* Cartridges: 16 KiB NROM images, NOP-filled, given as the bytes that     *)
(* differ from the fill (offset = address mod $4000).                      *)
(***************************************************************************)
Bytes(start, seq) == [o \in {start + i - 1 : i \in 1..Len(seq)} |-> seq[o - start + 1]]

\* vectors: NMI, RESET, IRQ (little endian) at $FFFA..$FFFF
Vectors(nmiV, resetV, irqV) ==
  Bytes(16378, <<nmiV % 256, nmiV \div 256, resetV % 256, resetV \div 256,
                 irqV % 256, irqV \div 256>>)

\* $8000: CLI; LDA #$11; PHA; PHP; PLA; PLA      $9000: RTI
CartStack ==
  Bytes(0, <<88, 169, 17, 72, 8, 104, 104>>) @@ Bytes(4096, <<64>>)
    @@ Vectors(36864, 32768, 36864)

\* $C000: JSR $8005   $8005: JSR $9000; RTS   $9000: RTS   $8010: RTI
CartJsr ==
  Bytes(0, <<32, 5, 128>>) @@ Bytes(5, <<32, 0, 144, 96>>) @@ Bytes(4096, <<96>>)
    @@ Bytes(16, <<64>>) @@ Vectors(32784, 49152, 32784)

\* $8000: SED; SEC; LDA #$80; ADC #$80; TAX; BRK   $9000: RTI
CartFlags ==
  Bytes(0, <<248, 56, 169, 128, 105, 128, 170, 0>>) @@ Bytes(4096, <<64>>)
    @@ Vectors(36864, 32768, 36864)

\* $8000: LDX #$01; TXS; PHP; PHA; PLA; PLP; KIL; (unknown $FF)
CartWrap ==
  Bytes(0, <<162, 1, 154, 8, 72, 104, 40, 2, 255>>) @@ Bytes(4096, <<64>>)
    @@ Vectors(36864, 32768, 36864)

\* $8000: BRK; sig; STA $10; LDA $0810   $9000: LDA #$42; RTI
CartBrk ==
  Bytes(0, <<0, 234, 133, 16, 173, 16, 8>>) @@ Bytes(4096, <<169, 66, 64>>)
    @@ Vectors(36864, 32768, 36864)

Cartridges == {CartStack, CartJsr, CartFlags, CartWrap, CartBrk}

Cpu_new == [A |-> 0, X |-> 0, Y |-> 0, P |-> 36, SP |-> 253, PC |-> 0]

(***************************************************************************)
(* Renderer (ppu/Renderer.ts).  The frame buffer and bgMask belong to the  *)
(* Renderer, not to the machine: bgMaskAt and sprite0Bits give the values  *)
(* renderBackground and renderSprites compute for one pixel.               *)
(***************************************************************************)
\* (byte >> (7 - x)) & 1
planeBit(byte, x) == (byte \div (2 ^ (7 - x))) % 2

\* (bit1 << 1) | bit0 of the pattern row at tileAddr
patternBits(m, tileAddr, x) ==
  2 * planeBit(readPpuMemory(m, tileAddr + 8), x)
    + planeBit(readPpuMemory(m, tileAddr), x)

\* totX and totY of renderBackground: the scroll origin in v and x plus the pixel
totX(p, x) == (p.v % 32) * 8 + (p.x % 8) + x
totY(p, y) == ((p.v \div 32) % 32) * 8 + ((p.v \div 4096) % 8) + y

\* ntAddr of renderBackground: nametable chosen by baseNT and the two toggles
ntAddr(p, x, y) ==
  8192
    + 2048 * ((((p.v \div 2048) % 2) + (IF totY(p, y) \div 8 >= 30 THEN 1 ELSE 0)) % 2)
    + 1024 * ((((p.v \div 1024) % 2) + ((totX(p, x) \div 256) % 2)) % 2)
    + ((totY(p, y) \div 8) % 32) * 32 + ((totX(p, x) \div 8) % 32)

\* bgMask[y * 256 + x] after renderFrame: filled with 0, then the pattern bits
\* of the background where PPUMASK bit 3 shows it
bgMaskAt(m, x, y) ==
  IF BitAnd(m.ppu.ppumask, 8) = 0 THEN 0
  ELSE patternBits(m,
         (IF BitAnd(m.ppu.ppuctrl, 16) # 0 THEN 4096 ELSE 0)
           + (readPpuMemory(m, ntAddr(m.ppu, x, y)) % 256) * 16
           + (totY(m.ppu, y) % 8),
         totX(m.ppu, x) % 8)

getSpritePatternBits(m, patternBase8x8, tileIndex, x, y, is8x16) ==
  IF ~is8x16
  THEN patternBits(m, patternBase8x8 + tileIndex * 16 + (y % 8), x)
  ELSE patternBits(m, (IF tileIndex % 2 = 1 THEN 4096 ELSE 0)
                        + ((tileIndex - (tileIndex % 2)) + ((y \div 8) % 2)) * 16
                        + (y % 8), x)

spriteHeight(p) == IF BitAnd(p.ppuctrl, 32) # 0 THEN 16 ELSE 8

\* the pattern bits renderSprites finds for column x, row y of sprite 0
sprite0Bits(m, x, y) ==
  getSpritePatternBits(m,
    IF BitAnd(m.ppu.ppuctrl, 8) # 0 THEN 4096 ELSE 0,
    At(m.ppu.oam, 1),
    IF BitAnd(At(m.ppu.oam, 2), 64) # 0 THEN 7 - x ELSE x,
    IF BitAnd(At(m.ppu.oam, 2), 128) # 0 THEN spriteHeight(m.ppu) - 1 - y ELSE y,
    spriteHeight(m.ppu) = 16)

\* n >= 1 ppuReads in a row on one level of A12: only the first can be a
\* rising edge, the others count the cooldown down and, when low, the streak up
tapRun(mp, addr, n) ==
  IF mp.kind # "mmc3" THEN mp
  ELSE [Mapper_ppuTap(mp, addr) EXCEPT
          !.a12Cooldown = IF @ > n - 1 THEN @ - (n - 1) ELSE 0,
          !.a12LowStreak = IF (addr \div 4096) % 2 = 0 THEN @ + (n - 1) ELSE @]

\* renderBackground: low and high plane of each of the 256 * 240 pixels
bgTaps(p, mp) ==
  IF BitAnd(p.ppumask, 8) = 0 THEN mp
  ELSE tapRun(mp, IF BitAnd(p.ppuctrl, 16) # 0 THEN 4096 ELSE 0, 256 * 240 * 2)

\* the loop of renderSprites from sprite i on: getSpritePatternBits is called
\* for the 8 * h pixels of every sprite whose Y is on the screen; base8 is the
\* pattern table of 8x8 sprites.  Only Mapper4 keeps state across ppuReads.
RECURSIVE spriteTaps(_, _, _, _, _)
spriteTaps(oam, h, base8, mp, i) ==
  IF mp.kind # "mmc3" \/ i = 64 THEN mp
  ELSE spriteTaps(oam, h, base8,
         IF (At(oam, 4 * i) + 1) % 256 >= 240 THEN mp
         ELSE tapRun(mp,
                IF h = 16 THEN (At(oam, 4 * i + 1) % 2) * 4096 ELSE base8,
                8 * h * 2),
         i + 1)

\* renderFrame: bgMask.fill(0), renderBackground, renderSprites, putImageData.
\* Both passes read the registers, the OAM and readPpuMemory and write the
\* Renderer's pixels and bgMask; no field of the Ppu is assigned, and the
\* cartridge sees the pattern reads.
renderFrame(m) ==
  IF m.mapper.kind = "none" THEN m
  ELSE IF BitAnd(m.ppu.ppumask, 16) = 0
    THEN [m EXCEPT !.mapper = bgTaps(m.ppu, m.mapper)]
  ELSE [m EXCEPT !.mapper =
          spriteTaps(m.ppu.oam, spriteHeight(m.ppu),
                     IF BitAnd(m.ppu.ppuctrl, 8) # 0 THEN 4096 ELSE 0,
                     bgTaps(m.ppu, m.mapper), 0)]

(***************************************************************************)
(* State, and the harness around it                                        *)
(***************************************************************************)
M == [cpu |-> cpu, ram |-> ram, ppu |-> ppu, mapper |-> mapper,
      shadow |-> shadow, pulled |-> <<>>]

Snapshot == M

Commit(m) ==
  /\ cpu' = m.cpu
  /\ ram' = m.ram
  /\ ppu' = m.ppu
  /\ mapper' = m.mapper
  /\ shadow' = m.shadow
  /\ pre' = Snapshot

\* last.prev is the call before the last one, with the PPU it found
NoLast == [op |-> "new", arg |-> 0, val |-> 0, pulled |-> <<>>, thrown |-> "",
           cycles |-> {},
           prev |-> [op |-> "new", arg |-> 0, val |-> 0, ppu |-> Ppu_new]]

Drv_idle == [running |-> FALSE, pc |-> "idle", mode |-> "none", i |-> 0,
             left |-> 0]

\* the account of a scanline in which nothing has happened yet
Line0 == [all |-> 0, step |-> 0, bg |-> FALSE, on |-> FALSE, line |-> 0]

Cnt0 == [steps |-> 0, calls |-> 0, writes |-> 0, instr |-> 0, since |-> 0,
         line |-> Line0, done |-> Line0,
         arm |-> [stage |-> 0, L |-> 0, edges |-> 0, clean |-> FALSE],
         ser |-> [n |-> 0, acc |-> 0, done |-> FALSE, reg |-> 0, val |-> 0],
         ram |-> Empty, sel |-> 0,
         int |-> [cpu |-> Cpu_new, steps |-> -1, calls |-> -1],
         off |-> "new",
         a12 |-> [low |-> 0, was |-> 0]]

\* new Memory(), optionally attachMapper(new Mapper0(...)), new Cpu6502(memory)
Init ==
  /\ cpu = Cpu_new
  /\ ram = Empty
  /\ ppu = Ppu_new
  /\ mapper \in {NoMapper} \cup
                {Mapper0_reset(Mapper0_new(c, 16384, "Horizontal")) : c \in Cartridges}
  /\ drv = Drv_idle
  /\ shadow = <<>>
  /\ last = NoLast
  /\ pre = Snapshot
  /\ cnt = Cnt0
  /\ pad = Controller_new
  /\ padh = PadH0


(***************************************************************************)
(* Harness actions on the CPU                                              *)
(***************************************************************************)
\* what a step() call leaves in the history
StepRecord(r) ==
  [op |-> "step", arg |-> r.opcode, val |-> 0, pulled |-> r.m.pulled,
   thrown |-> r.thrown, cycles |-> stepCycles(r)]

CpuStep ==
  /\ cnt.steps < MaxSteps
  /\ \E r \in {step(M)} :
       /\ Commit(r.m)
       /\ last' = StepRecord(r)
  /\ cnt' = [cnt EXCEPT !.steps = @ + 1]
  /\ UNCHANGED <<drv, pad, padh>>

CpuReset ==
  /\ cnt.calls < MaxCalls
  /\ Commit(reset(M))
  /\ last' = [NoLast EXCEPT !.op = "reset"]
  /\ cnt' = [cnt EXCEPT !.calls = @ + 1]
  /\ UNCHANGED <<drv, pad, padh>>

CpuNmi ==
  /\ cnt.calls < MaxCalls
  /\ Commit(nmi(M))
  /\ last' = [NoLast EXCEPT !.op = "nmi"]
  /\ cnt' = [cnt EXCEPT !.calls = @ + 1]
  /\ UNCHANGED <<drv, pad, padh>>

CpuIrq ==
  /\ cnt.calls < MaxCalls
  /\ Commit(irq(M))
  /\ last' = [NoLast EXCEPT !.op = "irq"]
  /\ cnt' = [cnt EXCEPT !.calls = @ + 1]
  /\ UNCHANGED <<drv, pad, padh>>

\* cpu.SP = value, as the stack wrap test does
StartSPs == {0}

SetSP ==
  /\ cnt.calls < MaxCalls
  /\ \E s \in StartSPs :
       /\ Commit([M EXCEPT !.cpu.SP = s, !.shadow = <<>>])
       /\ last' = [NoLast EXCEPT !.op = "setSP", !.val = s]
  /\ cnt' = [cnt EXCEPT !.calls = @ + 1]
  /\ UNCHANGED <<drv, pad, padh>>

Next == CpuStep \/ CpuReset \/ CpuNmi \/ CpuIrq \/ SetSP

Spec == Init /\ [][Next]_vars

(***************************************************************************)
(* Harness actions on the bus (Memory.read / Memory.write called directly) *)
(***************************************************************************)
WriteAddrs == {16, 2064, 512, 6656, 8191, 16404}
WriteVals == {2, 85}
ReadAddrs == {16, 6160, 8196, 32768}

BusWrite ==
  /\ cnt.writes < MaxWrites
  /\ \E a \in WriteAddrs, v \in WriteVals :
       /\ Commit(Memory_write(M, a, v))
       /\ last' = [NoLast EXCEPT !.op = "write", !.arg = a, !.val = v]
  /\ cnt' = [cnt EXCEPT !.writes = @ + 1]
  /\ UNCHANGED <<drv, pad, padh>>

BusRead ==
  /\ cnt.writes < MaxWrites
  /\ \E a \in ReadAddrs :
       \E r \in {Memory_read(M, a)} :
         /\ Commit(r.m)
         /\ last' = [NoLast EXCEPT !.op = "read", !.arg = a, !.val = r.val]
  /\ cnt' = [cnt EXCEPT !.writes = @ + 1]
  /\ UNCHANGED <<drv, pad, padh>>

NextMem == BusWrite \/ BusRead

SpecMem == Init /\ [][NextMem]_vars

(***************************************************************************)
(* The driver loop of main.ts.  drv.pc is the position of the one thread:  *)
(* "cpu" at the head of an iteration of runFrame's loop, "ppu" inside      *)
(* ppuStepMany, "idle" when no callback is running or scheduled.           *)
(* cnt.since counts the Ppu.step calls made since the last instruction.    *)
(***************************************************************************)
\* mutant: stepExecution passes the same count as runFrame
ppuQuota_same(mode) == PPU_STEPS_PER_CPU_STEP

\* argument of ppuStepMany after an instruction: runFrame / stepExecution
ppuQuota(mode) ==
  IF mode = "run" THEN PPU_STEPS_PER_CPU_STEP ELSE PPU_STEPS_PER_CPU_STEP * 4

\* bootWithRomBytes: new Memory, Mapper0, Ppu, Cpu6502 for the cartridge c
Boot(c) ==
  [cpu |-> Cpu_new, ram |-> Empty, ppu |-> Ppu_new,
   mapper |-> Mapper0_reset(Mapper0_new(c, 16384, "Horizontal")),
   shadow |-> <<>>, pulled |-> <<>>]

\* resetExecution / bootWithRomBytes: cpu.reset(), ppu.reset()
resetBoth(m) == [reset(m) EXCEPT !.ppu = Ppu_reset(@)]

\* bootWithRomBytes followed by startRunning, as the ROM input handler does
InitDrv ==
  /\ \E c \in Cartridges :
       \E m1 \in {resetBoth(Boot(c))} :
           /\ cpu = m1.cpu
           /\ ram = m1.ram
           /\ ppu = m1.ppu
           /\ mapper = m1.mapper
           /\ pre = m1
  /\ drv = [Drv_idle EXCEPT !.running = TRUE, !.pc = "cpu"]
  /\ shadow = <<>>
  /\ last = NoLast
  /\ cnt = Cnt0
  /\ pad = Controller_new
  /\ padh = PadH0

\* handleError: showMessage, pauseExecution
DrvAfterStep(r, mode) ==
  IF r.thrown # ""
  THEN [drv EXCEPT !.running = FALSE, !.pc = "idle", !.mode = "none", !.left = 0]
  ELSE [drv EXCEPT !.pc = "ppu", !.mode = mode, !.left = ppuQuota(mode)]

\* runFrame: cpu.step() of one loop iteration
RunCpuStep ==
  /\ drv.running /\ drv.pc = "cpu"
  /\ drv.i < Min(CPU_STEPS_PER_FRAME, MAX_STEPS_PER_FRAME)
  /\ cnt.instr < MaxInstr
  /\ \E r \in {step(M)} :
       /\ Commit(r.m)
       /\ last' = StepRecord(r)
       /\ drv' = DrvAfterStep(r, "run")
  /\ cnt' = [cnt EXCEPT !.instr = @ + 1, !.since = 0]
  /\ UNCHANGED <<pad, padh>>

\* stepExecution: cpu.step(), then ppuStepMany(PPU_STEPS_PER_CPU_STEP * 4)
StepExecution ==
  /\ ~drv.running /\ drv.pc = "idle"
  /\ cnt.instr < MaxInstr
  /\ \E r \in {step(M)} :
       /\ Commit(r.m)
       /\ last' = StepRecord(r)
       /\ drv' = DrvAfterStep(r, "step")
  /\ cnt' = [cnt EXCEPT !.instr = @ + 1, !.since = 0]
  /\ UNCHANGED <<pad, padh>>

\* one iteration of ppuStepMany's loop; after the last one the caller goes on:
\* runFrame to its next iteration (or, the budget spent, renderFrame and the
\* next animation frame), stepExecution to renderFrame and updateUI
PpuSubStep ==
  /\ drv.pc = "ppu" /\ drv.left > 0
  /\ Commit(ppuStepOnce(M))
  /\ last' = [NoLast EXCEPT !.op = "ppuStep", !.cycles = last.cycles]
  /\ drv' = IF drv.left > 1 THEN [drv EXCEPT !.left = @ - 1]
            ELSE IF drv.mode = "run"
              THEN [drv EXCEPT !.left = 0, !.pc = "cpu",
                               !.i = IF drv.i + 1 < Min(CPU_STEPS_PER_FRAME,
                                                        MAX_STEPS_PER_FRAME)
                                     THEN drv.i + 1 ELSE 0]
            ELSE [drv EXCEPT !.left = 0, !.pc = "idle"]
  /\ cnt' = [cnt EXCEPT !.since = @ + 1]
  /\ UNCHANGED <<pad, padh>>

\* between two animation frames
PauseExecution ==
  /\ drv.running /\ drv.pc = "cpu" /\ drv.i = 0
  /\ drv' = [drv EXCEPT !.running = FALSE, !.pc = "idle"]
  /\ last' = [NoLast EXCEPT !.op = "pause", !.cycles = last.cycles]
  /\ pre' = Snapshot
  /\ UNCHANGED <<cpu, ram, ppu, mapper, shadow, cnt, pad, padh>>

StartRunning ==
  /\ ~drv.running /\ drv.pc = "idle"
  /\ drv' = [drv EXCEPT !.running = TRUE, !.pc = "cpu", !.i = 0]
  /\ last' = [NoLast EXCEPT !.op = "start", !.cycles = last.cycles]
  /\ pre' = Snapshot
  /\ UNCHANGED <<cpu, ram, ppu, mapper, shadow, cnt, pad, padh>>

\* resetExecution: pauseExecution, cpu.reset(), ppu.reset(),
\* clearControllerStates()
ResetExecution ==
  /\ drv.pc = "idle" \/ (drv.pc = "cpu" /\ drv.i = 0)
  /\ cnt.calls < MaxCalls
  /\ Commit(resetBoth(M))
  /\ drv' = [drv EXCEPT !.running = FALSE, !.pc = "idle"]
  /\ last' = [NoLast EXCEPT !.op = "reset", !.cycles = last.cycles]
  /\ cnt' = [cnt EXCEPT !.calls = @ + 1]
  /\ pad' = clearControllerStates(pad)
  /\ UNCHANGED padh

NextDrv ==
  \/ RunCpuStep \/ StepExecution \/ PpuSubStep
  \/ PauseExecution \/ StartRunning \/ ResetExecution

SpecDrv == InitDrv /\ [][NextDrv]_vars

(***************************************************************************)
(* Harness actions on the Controller                                       *)
(***************************************************************************)
ButtonInputs == {[name |-> b] : b \in ButtonNames} \cup {[num |-> k] : k \in {0, 7, 8}}
StrobeVals == {0, 1, 2}

Pressed(c) == {b \in ButtonNames : c.buttons[b]}

PadSetButton ==
  /\ padh.presses < MaxPresses
  /\ \E btn \in ButtonInputs, pressed \in BOOLEAN :
       /\ pad' = setButton(pad, btn, pressed)
       /\ last' = [NoLast EXCEPT !.op = "setButton"]
  /\ padh' = [padh EXCEPT !.presses = @ + 1, !.idx = pad.shiftIndex]
  /\ UNCHANGED <<cpu, ram, ppu, mapper, drv, shadow, pre, cnt>>

PadWriteStrobe ==
  /\ padh.strobes < MaxStrobes
  /\ \E value \in StrobeVals :
       /\ pad' = writeStrobe(pad, value)
       /\ last' = [NoLast EXCEPT !.op = "writeStrobe", !.arg = value]
       /\ padh' = IF value % 2 = 1
                  THEN [padh EXCEPT !.strobes = @ + 1, !.idx = pad.shiftIndex,
                                    !.latched = FALSE, !.n = 0]
                  ELSE IF pad.strobe
                  THEN [padh EXCEPT !.strobes = @ + 1, !.idx = pad.shiftIndex,
                                    !.latched = TRUE, !.snap = Pressed(pad), !.n = 0]
                  ELSE [padh EXCEPT !.strobes = @ + 1, !.idx = pad.shiftIndex]
  /\ UNCHANGED <<cpu, ram, ppu, mapper, drv, shadow, pre, cnt>>

PadReadBit ==
  /\ padh.reads < MaxReads
  /\ \E r \in {readBit(pad)} :
       /\ pad' = r.c
       /\ last' = [NoLast EXCEPT !.op = "readBit", !.val = r.val]
  /\ padh' = [padh EXCEPT !.reads = @ + 1, !.idx = pad.shiftIndex,
                          !.n = IF pad.strobe THEN @ ELSE @ + 1]
  /\ UNCHANGED <<cpu, ram, ppu, mapper, drv, shadow, pre, cnt>>

NextPad == PadSetButton \/ PadWriteStrobe \/ PadReadBit

\* new Controller()
InitPad == Init /\ mapper = NoMapper

SpecPad == InitPad /\ [][NextPad]_vars

(***************************************************************************)
(* Harness on the PPU registers, as Ppu.test.ts drives them: calls through *)
(* the CPU bus at $2000-$3FFF and assignments to registers.ppustatus.      *)
(***************************************************************************)
RegWriteAddrs == {8192, 8197, 8198, 16381}
RegReadAddrs == {8192, 8194, 8195, 8197, 8201, 16378, 16382}
RegVals == {18, 52, 255}
StatusBits == {64, 128, 224}

Prev == [op |-> last.op, arg |-> last.arg, val |-> last.val, ppu |-> pre.ppu]

RegWrite ==
  /\ cnt.calls < MaxRegOps
  /\ \E a \in RegWriteAddrs, v \in RegVals :
       /\ Commit(Memory_write(M, a, v))
       /\ last' = [NoLast EXCEPT !.op = "write", !.arg = a, !.val = v, !.prev = Prev]
  /\ cnt' = [cnt EXCEPT !.calls = @ + 1]
  /\ UNCHANGED <<drv, pad, padh>>

RegRead ==
  /\ cnt.calls < MaxRegOps
  /\ \E a \in RegReadAddrs :
       \E r \in {Memory_read(M, a)} :
         /\ Commit(r.m)
         /\ last' = [NoLast EXCEPT !.op = "read", !.arg = a, !.val = r.val,
                                   !.prev = Prev]
  /\ cnt' = [cnt EXCEPT !.calls = @ + 1]
  /\ UNCHANGED <<drv, pad, padh>>

\* ppu.registers.ppustatus |= bit
SetStatus ==
  /\ cnt.calls < MaxRegOps
  /\ \E b \in StatusBits :
       /\ Commit([M EXCEPT !.ppu.ppustatus = BitOr(@, b)])
       /\ last' = [NoLast EXCEPT !.op = "setStatus", !.arg = b, !.prev = Prev]
  /\ cnt' = [cnt EXCEPT !.calls = @ + 1]
  /\ UNCHANGED <<drv, pad, padh>>

NextReg == RegWrite \/ RegRead \/ SetStatus

SpecReg == InitPad /\ [][NextReg]_vars

(***************************************************************************)
(* Harness on PPUDATA: the video memory is prepared with direct calls of   *)
(* writePpuMemory, the port is driven through $2000, $2006 and $2007.      *)
(***************************************************************************)
DataPoke ==
  /\ cnt.writes < MaxPokes
  /\ \E a \in {12037, 16133}, v \in {17, 34} :
       /\ Commit(writePpuMemory(M, a, v))
       /\ last' = [NoLast EXCEPT !.op = "poke", !.arg = a, !.val = v]
  /\ cnt' = [cnt EXCEPT !.writes = @ + 1]
  /\ UNCHANGED <<drv, pad, padh>>

PortWrite ==
  /\ cnt.calls < MaxPortOps
  /\ \E a \in {8192, 8198, 8199}, v \in {5, 47, 63} :
       /\ Commit(Memory_write(M, a, v))
       /\ last' = [NoLast EXCEPT !.op = "write", !.arg = a, !.val = v]
  /\ cnt' = [cnt EXCEPT !.calls = @ + 1]
  /\ UNCHANGED <<drv, pad, padh>>

PortRead ==
  /\ cnt.calls < MaxPortOps
  /\ \E r \in {Memory_read(M, 8199)} :
       /\ Commit(r.m)
       /\ last' = [NoLast EXCEPT !.op = "read", !.arg = 8199, !.val = r.val]
  /\ cnt' = [cnt EXCEPT !.calls = @ + 1]
  /\ UNCHANGED <<drv, pad, padh>>

NextData == DataPoke \/ PortWrite \/ PortRead

SpecData == InitPad /\ [][NextData]_vars

(***************************************************************************)
(* Harness on the video memory: direct calls of writePpuMemory and         *)
(* readPpuMemory, and cartridges of either mirroring attached in between.  *)
(***************************************************************************)
VramAddrs ==
  {16128, 16132, 16136, 16140, 16144, 16148, 16152, 16156, 16129, 16176,
   8197, 9221, 10245, 11269, 12293, 15365}

VramWrite ==
  /\ cnt.writes < MaxVramOps
  /\ \E a \in VramAddrs, v \in {17, 34} :
       /\ Commit(writePpuMemory(M, a, v))
       /\ last' = [NoLast EXCEPT !.op = "vwrite", !.arg = a, !.val = v]
  /\ cnt' = [cnt EXCEPT !.writes = @ + 1]
  /\ UNCHANGED <<drv, pad, padh>>

VramRead ==
  /\ cnt.writes < MaxVramOps
  /\ \E a \in VramAddrs :
       /\ Commit(M)
       /\ last' = [NoLast EXCEPT !.op = "vread", !.arg = a,
                                 !.val = readPpuMemory(M, a)]
  /\ cnt' = [cnt EXCEPT !.writes = @ + 1]
  /\ UNCHANGED <<drv, pad, padh>>

\* memory.attachMapper(new Mapper0(prg, chr, mirroring))
AttachMapper ==
  /\ cnt.writes < MaxVramOps
  /\ \E mir \in {"Horizontal", "Vertical", "FourScreen"} :
       /\ Commit([M EXCEPT !.mapper = Mapper0_reset(Mapper0_new(Empty, 16384, mir))])
       /\ last' = [NoLast EXCEPT !.op = "attach"]
  /\ cnt' = [cnt EXCEPT !.writes = @ + 1]
  /\ UNCHANGED <<drv, pad, padh>>

NextVram == VramWrite \/ VramRead \/ AttachMapper

SpecVram == InitPad /\ [][NextVram]_vars

(***************************************************************************)
(* The PPU stepped on its own, as the loop of Ppu.test.ts does.            *)
(* cnt.steps counts the calls of step().                                   *)
(***************************************************************************)
PpuTick ==
  /\ cnt.steps < MaxLines * 341
  /\ Commit(Ppu_step(M))
  /\ last' = [NoLast EXCEPT !.op = "tick"]
  /\ cnt' = [cnt EXCEPT !.steps = @ + 1]
  /\ UNCHANGED <<drv, pad, padh>>

NextScan == PpuTick

SpecScan == InitPad /\ [][NextScan]_vars

(***************************************************************************)
(* The driver loop run over whole frames, on cartridges that write         *)
(* PPUCTRL: runFrame after runFrame, no user input in between.             *)
(***************************************************************************)
\* $8000: LDA #$80; STA $2000; JMP $8005                        $9000: RTI
\* $8000: NOP ... $B5B6: LDA #$80; STA $2000; JMP $B5BB         $BF00: RTI
\*        (the STA is the 13752nd instruction: scanline 241, in VBlank)
\* $8000: LDA #$80; STA $2000; LDA #$00; STA $2000; JMP $800A  $9000: RTI
NmiCartridges ==
  {Bytes(0, <<169, 128, 141, 0, 32, 76, 5, 128>>) @@ Bytes(4096, <<64>>)
     @@ Vectors(36864, 32768, 36864),
   Bytes(13750, <<169, 128, 141, 0, 32, 76, 187, 181>>) @@ Bytes(16128, <<64>>)
     @@ Vectors(48896, 32768, 48896),
   Bytes(0, <<169, 128, 141, 0, 32, 169, 0, 141, 0, 32, 76, 10, 128>>)
     @@ Bytes(4096, <<64>>) @@ Vectors(36864, 32768, 36864)}

InitFrame ==
  /\ \E c \in NmiCartridges :
       \E m1 \in {resetBoth(Boot(c))} :
           /\ cpu = m1.cpu
           /\ ram = m1.ram
           /\ ppu = m1.ppu
           /\ mapper = m1.mapper
           /\ pre = m1
  /\ drv = [Drv_idle EXCEPT !.running = TRUE, !.pc = "cpu"]
  /\ shadow = <<>>
  /\ last = NoLast
  /\ cnt = Cnt0
  /\ pad = Controller_new
  /\ padh = PadH0

\* runFrame: cpu.step() of one loop iteration
FrameCpuStep ==
  /\ drv.running /\ drv.pc = "cpu"
  /\ cnt.instr * PPU_STEPS_PER_CPU_STEP < MaxLines * 341
  /\ \E r \in {step(M)} :
       /\ Commit(r.m)
       /\ last' = StepRecord(r)
       /\ drv' = DrvAfterStep(r, "run")
  /\ cnt' = [cnt EXCEPT !.instr = @ + 1, !.since = 0]
  /\ UNCHANGED <<pad, padh>>

NextFrame == FrameCpuStep \/ PpuSubStep

SpecFrame == InitFrame /\ [][NextFrame]_vars

(***************************************************************************)
(* Harness on the Renderer, as Sprite0Hit.test.ts drives it: an NROM       *)
(* cartridge whose CHR-ROM tile #1 is solid, PPUMASK written through the   *)
(* bus, the nametable and the OAM of sprite 0 set directly, renderFrame.   *)
(***************************************************************************)
\* makeChr: chr[16 * 1 + row] = 0xFF for the eight rows of the low plane
makeChr == [a \in 16..23 |-> 255]

\* new Memory() and memory.attachMapper(mp)
InitWith(mp) ==
  /\ cpu = Cpu_new
  /\ ram = Empty
  /\ ppu = Ppu_new
  /\ mapper = mp
  /\ drv = Drv_idle
  /\ shadow = <<>>
  /\ last = NoLast
  /\ pre = Snapshot
  /\ cnt = Cnt0
  /\ pad = Controller_new
  /\ padh = PadH0

\* new Mapper0(prg, makeChr(), Mirroring.Horizontal)
InitRender ==
  InitWith([Mapper0_new(Empty, 16384, "Horizontal") EXCEPT
              !.chr = makeChr, !.chrIsRam = FALSE])

MaskWrite ==
  /\ cnt.calls < MaxRenderOps
  /\ \E v \in {14, 22, 26, 28, 30} :
       /\ Commit(Memory_write(M, 8193, v))
       /\ last' = [NoLast EXCEPT !.op = "write", !.arg = 8193, !.val = v]
  /\ cnt' = [cnt EXCEPT !.calls = @ + 1]
  /\ UNCHANGED <<drv, pad, padh>>

\* paintSolidBgUnder: tile #1 at column tx of row 1 of nametable 0
PaintBg ==
  /\ cnt.calls < MaxRenderOps
  /\ \E tx \in {0, 1} :
       /\ Commit(writePpuMemory(M, 8192 + 32 + tx, 1))
       /\ last' = [NoLast EXCEPT !.op = "paint", !.arg = tx]
  /\ cnt' = [cnt EXCEPT !.calls = @ + 1]
  /\ UNCHANGED <<drv, pad, padh>>

\* ppu.oam[0..3] = (sy - 1, 1, attributes, sx) with sy = 10
SetSprite0 ==
  /\ cnt.calls < MaxRenderOps
  /\ \E sx \in {4, 10, 100}, attributes \in {0, 32} :
       /\ Commit([M EXCEPT !.ppu.oam = (0 :> 9) @@ (1 :> 1) @@ (2 :> attributes)
                                         @@ (3 :> sx) @@ @])
       /\ last' = [NoLast EXCEPT !.op = "sprite0", !.arg = sx, !.val = attributes]
  /\ cnt' = [cnt EXCEPT !.calls = @ + 1]
  /\ UNCHANGED <<drv, pad, padh>>

RenderFrame ==
  /\ cnt.calls < MaxRenderOps
  /\ Commit(renderFrame(M))
  /\ last' = [NoLast EXCEPT !.op = "renderFrame"]
  /\ cnt' = [cnt EXCEPT !.calls = @ + 1]
  /\ UNCHANGED <<drv, pad, padh>>

NextRender == MaskWrite \/ PaintBg \/ SetSprite0 \/ RenderFrame

SpecRender == InitRender /\ [][NextRender]_vars


(***************************************************************************)
(* The sprite-0 hit flag over a frame: PPUSTATUS bits are set by           *)
(* assignment on the fresh PPU and PPUSTATUS is read once through the bus, *)
(* then the PPU is stepped through the pre-render line.                    *)
(***************************************************************************)
\* ppu.registers.ppustatus |= bits, before the first step
HitSet ==
  /\ cnt.steps = 0
  /\ cnt.calls = 0
  /\ cnt.calls < MaxHitOps
  /\ \E b \in {64, 224} :
       /\ Commit([M EXCEPT !.ppu.ppustatus = BitOr(@, b)])
       /\ last' = [NoLast EXCEPT !.op = "setStatus", !.arg = b]
  /\ cnt' = [cnt EXCEPT !.calls = @ + 1]
  /\ UNCHANGED <<drv, pad, padh>>

\* mem.read(0x2002), before the first step
HitRead ==
  /\ cnt.steps = 0
  /\ cnt.calls > 0
  /\ cnt.calls < MaxHitOps
  /\ \E r \in {Memory_read(M, 8194)} :
       /\ Commit(r.m)
       /\ last' = [NoLast EXCEPT !.op = "read", !.arg = 8194, !.val = r.val]
  /\ cnt' = [cnt EXCEPT !.calls = @ + 1]
  /\ UNCHANGED <<drv, pad, padh>>

\* stepScanlines: 341 calls of step() per scanline
HitTick == cnt.steps < MaxHitLines * 341 /\ PpuTick

NextHit == HitSet \/ HitRead \/ HitTick

SpecHit == InitPad /\ [][NextHit]_vars


(***************************************************************************)
(* Harness on the PPU with an MMC3 cartridge, after PpuA12IrqHook.test.ts: *)
(* Ppu.step one call at a time, registers written and PPUDATA read through *)
(* the bus, frames rendered.  The PPU starts where stepping a fresh PPU    *)
(* with the background off leaves it, two steps before the end of scanline *)
(* -1, 0 or 239.                                                           *)
(* cnt.line is the account of the current scanline: all = calls of         *)
(* clockIrqCounter made during it, step = those made by Ppu.step, bg = a   *)
(* step found PPUMASK bit 3 set, on = the bit was set at some moment.      *)
(* cnt.done is the account of the scanline that ended last.                *)
(***************************************************************************)
\* makePrg(32 KiB), makeChr(8 KiB) of the mapper tests
TestPrg == [size |-> 32768, unit |-> 8192]
TestChr == [size |-> 8192, unit |-> 1024]

InitA12 ==
  /\ cpu = Cpu_new
  /\ ram = Empty
  /\ \E s \in {-1, 0, 239} :
       /\ ppu = [Ppu_new EXCEPT !.scanline = s, !.cycle = 339]
       /\ cnt = [Cnt0 EXCEPT !.line.line = s]
  /\ mapper = Mapper4_reset(Mapper4_new(TestPrg, TestChr, "Horizontal"))
  /\ drv = Drv_idle
  /\ shadow = <<>>
  /\ last = NoLast
  /\ pre = Snapshot
  /\ pad = Controller_new
  /\ padh = PadH0

Account(l, d, isStep, bgSeen, bgNow) ==
  [all |-> l.all + d,
   step |-> l.step + (IF isStep THEN d ELSE 0),
   bg |-> l.bg \/ (isStep /\ bgSeen),
   on |-> l.on \/ bgSeen \/ bgNow,
   line |-> l.line]

\* cnt after a call that leaves the machine as m
Accounted(m, isStep) ==
  IF m.ppu.scanline = ppu.scanline
  THEN [cnt EXCEPT !.line = Account(@, m.mapper.clocks - mapper.clocks, isStep,
                                    BitAnd(ppu.ppumask, 8) # 0,
                                    BitAnd(m.ppu.ppumask, 8) # 0)]
  ELSE [cnt EXCEPT !.done = Account(cnt.line, m.mapper.clocks - mapper.clocks, isStep,
                                    BitAnd(ppu.ppumask, 8) # 0,
                                    BitAnd(m.ppu.ppumask, 8) # 0),
                   !.line = [Line0 EXCEPT !.on = (BitAnd(m.ppu.ppumask, 8) # 0),
                                          !.line = m.ppu.scanline]]

A12Tick ==
  /\ cnt.steps < MaxA12Ticks
  /\ \E m1 \in {Ppu_step(M)} :
       /\ Commit(m1)
       /\ cnt' = [Accounted(m1, TRUE) EXCEPT !.steps = @ + 1]
  /\ last' = [NoLast EXCEPT !.op = "tick"]
  /\ UNCHANGED <<drv, pad, padh>>

\* memory.write to PPUMASK, PPUCTRL and PPUADDR
A12Write ==
  /\ cnt.writes < MaxA12Writes
  /\ \E w \in {<<8193, 0>>, <<8193, 16>>, <<8193, 24>>, <<8192, 8>>, <<8198, 16>>} :
       \E m1 \in {Memory_write(M, w[1], w[2])} :
         /\ Commit(m1)
         /\ cnt' = [Accounted(m1, FALSE) EXCEPT !.writes = @ + 1]
         /\ last' = [NoLast EXCEPT !.op = "write", !.arg = w[1], !.val = w[2]]
  /\ UNCHANGED <<drv, pad, padh>>

\* memory.read(0x2007)
A12Read ==
  /\ cnt.calls < MaxA12Ops
  /\ \E r \in {Memory_read(M, 8199)} :
       /\ Commit(r.m)
       /\ cnt' = [Accounted(r.m, FALSE) EXCEPT !.calls = @ + 1]
       /\ last' = [NoLast EXCEPT !.op = "read", !.arg = 8199, !.val = r.val]
  /\ UNCHANGED <<drv, pad, padh>>

\* renderer.renderFrame(ppu)
A12Render ==
  /\ cnt.calls < MaxA12Ops
  /\ \E m1 \in {renderFrame(M)} :
       /\ Commit(m1)
       /\ cnt' = [Accounted(m1, FALSE) EXCEPT !.calls = @ + 1]
  /\ last' = [NoLast EXCEPT !.op = "renderFrame"]
  /\ UNCHANGED <<drv, pad, padh>>

NextA12 == A12Tick \/ A12Write \/ A12Read \/ A12Render

SpecA12 == InitA12 /\ [][NextA12]_vars


(***************************************************************************)
(* Harness on Mapper4 alone, after Mapper4Irq.test.ts and                  *)
(* Mapper4Banking.test.ts: new Mapper4, reset, then cpuWrite, doA12Rising  *)
(* and consumeIrq called on it.  cnt.arm follows the writes: stage 3 when  *)
(* the last three were $C000 = L, $C001, $E001 in this order; edges counts *)
(* the edges made since, clean tells that no IRQ was pending then.         *)
(***************************************************************************)
Armed(arm, mp, a, v) ==
  IF a >= 49152 /\ a <= 57343 /\ a % 2 = 0
    THEN [stage |-> 1, L |-> v, edges |-> 0, clean |-> FALSE]
  ELSE IF a >= 49152 /\ a <= 57343 /\ arm.stage = 1 THEN [arm EXCEPT !.stage = 2]
  ELSE IF a >= 57344 /\ a % 2 = 1 /\ arm.stage = 2
    THEN [arm EXCEPT !.stage = 3, !.clean = ~mp.irqPending]
  ELSE [arm EXCEPT !.stage = 0]

\* mapper.cpuWrite(a, v) for <<a, v>> in W
M4Write(W) ==
  /\ cnt.writes < MaxM4Writes
  /\ \E w \in W :
       /\ Commit([M EXCEPT !.mapper = Mapper4_cpuWrite(@, w[1], w[2])])
       /\ last' = [NoLast EXCEPT !.op = "cpuWrite", !.arg = w[1], !.val = w[2]]
       /\ cnt' = [cnt EXCEPT !.writes = @ + 1,
                             !.arm = Armed(@, mapper, w[1], w[2])]
  /\ UNCHANGED <<drv, pad, padh>>

\* doA12Rising: sixteen ppuReads with A12 low, then ppuRead(0x1000)
M4Edge ==
  /\ cnt.steps < MaxM4Edges
  /\ Commit([M EXCEPT !.mapper = synthA12(mapper)])
  /\ last' = [NoLast EXCEPT !.op = "edge"]
  /\ cnt' = [cnt EXCEPT !.steps = @ + 1,
                        !.arm = IF @.stage = 3 THEN [@ EXCEPT !.edges = @ + 1]
                                ELSE [@ EXCEPT !.stage = 0]]
  /\ UNCHANGED <<drv, pad, padh>>

\* mapper.consumeIrq()
M4Consume ==
  /\ cnt.calls < MaxM4Calls
  /\ Commit(M)
  /\ last' = [NoLast EXCEPT !.op = "consumeIrq",
                            !.val = IF consumeIrq(mapper) THEN 1 ELSE 0]
  /\ cnt' = [cnt EXCEPT !.calls = @ + 1]
  /\ UNCHANGED <<drv, pad, padh>>

NextM4Irq ==
  \/ M4Write({<<49152, 0>>, <<49152, 1>>, <<49152, 2>>, <<49153, 0>>, <<57345, 0>>, <<57344, 0>>,
              <<65534, 0>>, <<32768, 6>>})
  \/ M4Edge
  \/ M4Consume

SpecM4Irq ==
  InitWith(Mapper4_reset(Mapper4_new(TestPrg, TestChr, "Horizontal")))
    /\ [][NextM4Irq]_vars

\* writeBankReg: $8000 = register | prgMode << 6, $8001 = value; $A000 besides
NextM4Bank ==
  M4Write({<<32768, 6>>, <<32768, 7>>, <<32768, 70>>, <<32768, 71>>, <<32768, 0>>,
           <<32769, 0>>, <<32769, 1>>, <<32769, 5>>, <<40960, 1>>})

\* makePrg of 2 or 4 banks of 8 KiB
SpecM4Bank ==
  (\E n \in {2, 4} :
     InitWith(Mapper4_reset(Mapper4_new([size |-> n * 8192, unit |-> 8192],
                                        TestChr, "Horizontal"))))
    /\ [][NextM4Bank]_vars


(***************************************************************************)
(* Harness on Mapper1 alone, after Mapper1Banking.test.ts: a cartridge of  *)
(* 2 or 4 PRG banks and 8 CHR banks filled with their index, CONTROL set   *)
(* by write5, then single cpuWrites and reset.  cnt.ser follows the writes *)
(* as the serial port is described: n bits taken so far, acc their value   *)
(* LSB first, done when the write just made was a fifth one, for register  *)
(* reg with value val.                                                     *)
(***************************************************************************)
Ser0 == [n |-> 0, acc |-> 0, done |-> FALSE, reg |-> 0, val |-> 0]

Serial(ser, a, v) ==
  IF a < 32768 THEN [ser EXCEPT !.done = FALSE]
  ELSE IF v >= 128 THEN Ser0
  ELSE IF ser.n = 4
    THEN [Ser0 EXCEPT !.done = TRUE, !.reg = (a \div 8192) % 4,
                      !.val = ser.acc + (v % 2) * 16]
  ELSE [ser EXCEPT !.n = @ + 1, !.acc = @ + (v % 2) * (2 ^ ser.n), !.done = FALSE]

write5(mp, addr, value) ==
  Mapper1_cpuWrite(Mapper1_cpuWrite(Mapper1_cpuWrite(Mapper1_cpuWrite(Mapper1_cpuWrite(
    mp, addr, value % 2), addr, (value \div 2) % 2), addr, (value \div 4) % 2),
    addr, (value \div 8) % 2), addr, (value \div 16) % 2)

InitM1 ==
  \E n \in {2, 4}, c \in {12, 8, 4, 0, 28} :
    InitWith(write5(Mapper1_new([size |-> n * 16384, unit |-> 16384],
                                [size |-> 32768, unit |-> 4096], "Horizontal"),
                    32768, c))

\* mapper.cpuWrite(a, v): the first four bits at two of the addresses, the
\* fifth at any of the four registers; 1 and 3 have bit 0 set, 2 has not
M1Write ==
  /\ cnt.writes < MaxM1Writes
  /\ \E a \in (IF cnt.ser.n < 4 THEN {32768, 57344}
               ELSE {32768, 40960, 49152, 57344, 65535}),
        v \in {1, 2, 3, 128} :
       /\ (v = 128 => a = 32768) /\ (v = 3 => a = 57344)
       /\ Commit([M EXCEPT !.mapper = Mapper1_cpuWrite(@, a, v)])
       /\ last' = [NoLast EXCEPT !.op = "cpuWrite", !.arg = a, !.val = v]
       /\ cnt' = [cnt EXCEPT !.writes = @ + 1, !.ser = Serial(@, a, v)]
  /\ UNCHANGED <<drv, pad, padh>>

\* mapper.reset()
M1Reset ==
  /\ cnt.calls < MaxM1Calls
  /\ Commit([M EXCEPT !.mapper = Mapper1_reset(@)])
  /\ last' = [NoLast EXCEPT !.op = "reset"]
  /\ cnt' = [cnt EXCEPT !.calls = @ + 1, !.ser = Ser0, !.ram = Empty]
  /\ UNCHANGED <<drv, pad, padh>>

NextM1 == M1Write \/ M1Reset

SpecM1 == InitM1 /\ [][NextM1]_vars


(***************************************************************************)
(* Harness after Mapper1PrgRam.test.ts: w8cpu to $6000-$7FFF, write5 to    *)
(* the four registers and reset, on the cartridge of four PRG banks.       *)
(* cnt.ram holds the bytes written to $6000-$7FFF since the last reset.    *)
(***************************************************************************)
InitM1Ram ==
  InitWith(Mapper1_reset(Mapper1_new([size |-> 65536, unit |-> 16384],
                                     [size |-> 32768, unit |-> 4096], "Horizontal")))

\* w8cpu(mapper, a, v) with a in $6000-$7FFF
M1RamWrite ==
  /\ cnt.writes < MaxM1RamOps
  /\ \E a \in {24576, 32767}, v \in {17, 171} :
       /\ Commit([M EXCEPT !.mapper = Mapper1_cpuWrite(@, a, v)])
       /\ last' = [NoLast EXCEPT !.op = "cpuWrite", !.arg = a, !.val = v]
       /\ cnt' = [cnt EXCEPT !.writes = @ + 1, !.ram = Put(@, a, v)]
  /\ UNCHANGED <<drv, pad, padh>>

\* write5(mapper, a, v)
M1Write5 ==
  /\ cnt.writes < MaxM1RamOps
  /\ \E a \in {32768, 40960, 49152, 57344}, v \in {28, 2, 0} :
       /\ Commit([M EXCEPT !.mapper = write5(@, a, v)])
       /\ last' = [NoLast EXCEPT !.op = "write5", !.arg = a, !.val = v]
       /\ cnt' = [cnt EXCEPT !.writes = @ + 1]
  /\ UNCHANGED <<drv, pad, padh>>

NextM1Ram == M1RamWrite \/ M1Write5 \/ M1Reset

SpecM1Ram == InitM1Ram /\ [][NextM1Ram]_vars


(***************************************************************************)
(* Harness on Mapper2 alone, after the Mapper2 tests: makePrg16kBanks of   *)
(* 1, 3 or 4 banks filled with their index, CHR-RAM or a CHR-ROM, reset,   *)
(* then w8cpu, ppuWrite and reset.  cnt.sel is the value of the last write *)
(* to $8000-$FFFF since the reset.                                         *)
(***************************************************************************)
InitM2 ==
  \E n \in {1, 3, 4}, c \in {0, 8192} :
    InitWith(Mapper2_reset(Mapper2_new([size |-> n * 16384, unit |-> 16384],
                                       [size |-> c, unit |-> 8192], "Vertical")))

\* w8cpu(mapper, a, v)
M2Write ==
  /\ cnt.writes < MaxM2Writes
  /\ \E w \in {<<24576, 90>>, <<32767, 165>>, <<32768, 1>>, <<65535, 2>>,
               <<32768, 9>>, <<36864, 255>>, <<49152, 0>>} :
       /\ Commit([M EXCEPT !.mapper = Mapper2_cpuWrite(@, w[1], w[2])])
       /\ last' = [NoLast EXCEPT !.op = "cpuWrite", !.arg = w[1], !.val = w[2]]
       /\ cnt' = [cnt EXCEPT !.writes = @ + 1,
                             !.sel = IF w[1] >= 32768 THEN w[2] ELSE @]
  /\ UNCHANGED <<drv, pad, padh>>

\* mapper.ppuWrite(a, 0x55)
M2PpuWrite ==
  /\ cnt.steps < MaxM2Calls
  /\ \E a \in {0, 8191} :
       /\ Commit([M EXCEPT !.mapper = Mapper2_ppuWrite(@, a, 85)])
       /\ last' = [NoLast EXCEPT !.op = "ppuWrite", !.arg = a, !.val = 85]
       /\ cnt' = [cnt EXCEPT !.steps = @ + 1]
  /\ UNCHANGED <<drv, pad, padh>>

\* mapper.reset()
M2Reset ==
  /\ cnt.calls < MaxM2Calls
  /\ Commit([M EXCEPT !.mapper = Mapper2_reset(@)])
  /\ last' = [NoLast EXCEPT !.op = "reset"]
  /\ cnt' = [cnt EXCEPT !.calls = @ + 1, !.sel = 0]
  /\ UNCHANGED <<drv, pad, padh>>

NextM2 == M2Write \/ M2PpuWrite \/ M2Reset

SpecM2 == InitM2 /\ [][NextM2]_vars


(***************************************************************************)
(* The driver's reset on cartridges with bank registers: bootWithRomBytes  *)
(* with a Mapper4 or a Mapper2, stores of the program to the cartridge     *)
(* registers, resetExecution.                                              *)
(***************************************************************************)
PowerOn(kind) ==
  IF kind = "mmc3" THEN Mapper4_reset(Mapper4_new(TestPrg, TestChr, "Horizontal"))
  ELSE Mapper2_reset(Mapper2_new([size |-> 65536, unit |-> 16384],
                                 [size |-> 0, unit |-> 8192], "Horizontal"))

InitReset ==
  /\ \E k \in {"mmc3", "uxrom"} :
       \E m1 \in {resetBoth([Boot(Empty) EXCEPT !.mapper = PowerOn(k)])} :
           /\ cpu = m1.cpu
           /\ ram = m1.ram
           /\ ppu = m1.ppu
           /\ mapper = m1.mapper
           /\ pre = m1
  /\ drv = Drv_idle
  /\ shadow = <<>>
  /\ last = NoLast
  /\ cnt = Cnt0
  /\ pad = Controller_new
  /\ padh = PadH0

\* a store of the program to a cartridge register
CartWrite ==
  /\ cnt.writes < MaxResetWrites
  /\ \E w \in {<<32768, 70>>, <<32769, 1>>, <<40960, 0>>, <<49152, 2>>,
               <<49153, 0>>, <<57345, 0>>} :
       /\ Commit(Memory_write(M, w[1], w[2]))
       /\ last' = [NoLast EXCEPT !.op = "write", !.arg = w[1], !.val = w[2]]
  /\ cnt' = [cnt EXCEPT !.writes = @ + 1]
  /\ UNCHANGED <<drv, pad, padh>>

NextReset == CartWrite \/ ResetExecution

SpecReset == InitReset /\ [][NextReset]_vars


(***************************************************************************)
(* The driver on cartridges that run into an opcode Cpu6502.step does not  *)
(* execute: $8000: NOP; the opcode; LDA #$01.                              *)
(***************************************************************************)
KilCartridges ==
  {Bytes(0, <<234, k, 169, 1>>) @@ Vectors(36864, 32768, 36864) :
     k \in KilOpcodes \cup {11, 156, 255}}

InitKil ==
  /\ \E c \in KilCartridges :
       \E m1 \in {resetBoth(Boot(c))} :
           /\ cpu = m1.cpu
           /\ ram = m1.ram
           /\ ppu = m1.ppu
           /\ mapper = m1.mapper
           /\ pre = m1
  /\ drv = [Drv_idle EXCEPT !.running = TRUE, !.pc = "cpu"]
  /\ shadow = <<>>
  /\ last = NoLast
  /\ cnt = Cnt0
  /\ pad = Controller_new
  /\ padh = PadH0

SpecKil == InitKil /\ [][NextDrv]_vars


(***************************************************************************)
(* Harness: the status register under PLP and RTI.  The cartridges push    *)
(* bytes with bit 5 clear and pull them into P.                            *)
(***************************************************************************)
\* $8000: LDA #$00; PHA; PLP; LDA #$DF; PHA; PLP      $9000: RTI
CartPlp ==
  Bytes(0, <<169, 0, 72, 40, 169, 223, 72, 40>>) @@ Bytes(4096, <<64>>)
    @@ Vectors(36864, 32768, 36864)

\* $8000: LDA #$00; PHA; PHA; PHA; RTI                $9000: PLP; RTI
CartRti ==
  Bytes(0, <<169, 0, 72, 72, 72, 64>>) @@ Bytes(4096, <<40, 64>>)
    @@ Vectors(36864, 32768, 36864)

\* $8000: LDA #$DF; PHA; PHA; PHA; RTI                $9000: CLI; RTI
CartRtiDF ==
  Bytes(0, <<169, 223, 72, 72, 72, 64>>) @@ Bytes(4096, <<88, 64>>)
    @@ Vectors(36864, 32768, 36864)

StatusCartridges == {CartPlp, CartRti, CartRtiDF}

InitStatus ==
  \E c \in StatusCartridges :
    InitWith(Mapper0_reset(Mapper0_new(c, 16384, "Horizontal")))

SpecStatus == InitStatus /\ [][Next]_vars


(***************************************************************************)
(* Harness: an interrupt entry followed by the RTI of its handler.         *)
(* cnt.int keeps the registers the entry found and the counts just after   *)
(* it, so that the RTI executed as the very next operation can be told.    *)
(***************************************************************************)
\* $8000: CLI; LDA #$DF; PHA; PLP; CLI; NOP          $9000: RTI
CartInt ==
  Bytes(0, <<88, 169, 223, 72, 40, 88, 234>>) @@ Bytes(4096, <<64>>)
    @@ Vectors(36864, 32768, 36864)

IntCartridges == {CartInt, CartPlp, CartStack, CartFlags}

InitInt ==
  \E c \in IntCartridges :
    InitWith(Mapper0_reset(Mapper0_new(c, 16384, "Horizontal")))

TakeNmi ==
  /\ cnt.calls < MaxCalls
  /\ Commit(nmi(M))
  /\ last' = [NoLast EXCEPT !.op = "nmi"]
  /\ cnt' = [cnt EXCEPT !.calls = @ + 1,
                        !.int = [cpu |-> cpu, steps |-> cnt.steps,
                                 calls |-> cnt.calls + 1]]
  /\ UNCHANGED <<drv, pad, padh>>

TakeIrq ==
  /\ cnt.calls < MaxCalls
  /\ Commit(irq(M))
  /\ last' = [NoLast EXCEPT !.op = "irq"]
  /\ cnt' = [cnt EXCEPT !.calls = @ + 1,
                        !.int = IF getFlag(cpu.P, InterruptDisable) THEN @
                                ELSE [cpu |-> cpu, steps |-> cnt.steps,
                                      calls |-> cnt.calls + 1]]
  /\ UNCHANGED <<drv, pad, padh>>

NextInt == CpuStep \/ CpuReset \/ SetSP \/ TakeNmi \/ TakeIrq

SpecInt == InitInt /\ [][NextInt]_vars

\* the last operation was an RTI and the one before it an interrupt entry
RtiAfterEntry ==
  /\ last.op = "step" /\ last.arg = 64
  /\ cnt.steps = cnt.int.steps + 1
  /\ cnt.calls = cnt.int.calls


(***************************************************************************)
(* Harness on Mapper4 for the IRQ enable bit: writes of the latch, reload, *)
(* disable, enable, mirroring and PRG-RAM control registers, A12 edges.    *)
(* cnt.off is "off" from a write of $E000 to the next write of $E001, and  *)
(* "back" after that one.                                                  *)
(***************************************************************************)
M4CtlWrites ==
  {<<49152, 0>>, <<49152, 1>>, <<49153, 0>>, <<57344, 0>>, <<57345, 0>>,
   <<40960, 1>>, <<40961, 128>>, <<40961, 192>>}

M4CtlWrite ==
  /\ cnt.writes < MaxM4CtlWrites
  /\ \E w \in M4CtlWrites :
       /\ Commit([M EXCEPT !.mapper = Mapper4_cpuWrite(@, w[1], w[2])])
       /\ last' = [NoLast EXCEPT !.op = "cpuWrite", !.arg = w[1], !.val = w[2]]
       /\ cnt' = [cnt EXCEPT !.writes = @ + 1,
                             !.off = IF w[1] < 57344 THEN @
                                    ELSE IF w[1] % 2 = 0 THEN "off"
                                    ELSE IF @ = "off" THEN "back" ELSE "on"]
  /\ UNCHANGED <<drv, pad, padh>>

NextM4Ctl == M4CtlWrite \/ M4Edge \/ M4Consume

SpecM4Ctl ==
  InitWith(Mapper4_reset(Mapper4_new(TestPrg, TestChr, "Horizontal")))
    /\ [][NextM4Ctl]_vars

\* the IRQ registers of Mapper4
IrqRegs(mp) ==
  <<mp.irqLatch, mp.irqCounter, mp.irqReload, mp.irqEnabled, mp.irqPending>>


(***************************************************************************)
(* Harness: the driver with an MMC3 cartridge whose IRQ is raised while    *)
(* InterruptDisable is set.  The PRG-ROM is 32 KiB; the last bank holds    *)
(* the program at $E000, the IRQ handler at $F000, the NMI handler (RTI)   *)
(* at $F100 and the vectors.  The run starts where the set-up code of the  *)
(* cartridge has left the machine: latch 0, IRQ enabled, background shown. *)
(***************************************************************************)
\* where the cartridges keep their handlers
HandlerAt == [irq |-> 61440, nmi |-> 61696]

IrqPrg(code, handler) ==
  [size |-> 32768, unit |-> 8192,
   bytes |-> Bytes(24576, code) @@ Bytes(28672, handler) @@ Bytes(28928, <<64>>)
               @@ Bytes(32762, <<Lo(HandlerAt.nmi), Hi(HandlerAt.nmi), 0, 224,
                                 Lo(HandlerAt.irq), Hi(HandlerAt.irq)>>)]

\* NOP; CLI; NOP ... with the handler RTI, or STA $E000; RTI
\* LDA #$20; PHA; PLP; NOP ... with the handler RTI
IrqCartridges ==
  {IrqPrg(<<234, 88, 234, 234, 234, 234, 234, 234>>, <<64>>),
   IrqPrg(<<234, 88, 234, 234, 234, 234, 234, 234>>, <<141, 0, 224, 64>>),
   IrqPrg(<<169, 32, 72, 40, 234, 234, 234, 234>>, <<64>>)}

\* STA $C000 (latch 0); STA $E001 (enable); LDA #$08; STA $2001 done
IrqSetUp(m) ==
  Memory_write(Memory_write(Memory_write(m, 49152, 0), 57345, 0), 8193, 8)

\* further on: NMI enabled, the IRQ raised by the edge of an earlier scanline,
\* the PPU at cycle c of scanline 240
IrqInVblank(m, c) ==
  [Memory_write(m, 8192, 128) EXCEPT !.mapper = synthA12(@),
                                     !.ppu.scanline = 240, !.ppu.cycle = c]

IrqStartCycles == {316, 322, 328, 334}

IrqStarts(prg) ==
  {IrqSetUp(resetBoth([Boot(Empty) EXCEPT
      !.mapper = Mapper4_reset(Mapper4_new(prg, TestChr, "Horizontal"))]))}

InitIrq ==
  /\ \E prg \in IrqCartridges :
       \E m0 \in IrqStarts(prg) :
         \E m1 \in {m0} \cup {IrqInVblank(m0, c) : c \in IrqStartCycles} :
           /\ cpu = m1.cpu
           /\ ram = m1.ram
           /\ ppu = m1.ppu
           /\ mapper = m1.mapper
           /\ pre = m1
  /\ drv = [Drv_idle EXCEPT !.running = TRUE, !.pc = "cpu"]
  /\ shadow = <<>>
  /\ last = NoLast
  /\ cnt = Cnt0
  /\ pad = Controller_new
  /\ padh = PadH0

SpecIrq == InitIrq /\ [][NextDrv]_vars

\* the instruction just executed has cleared InterruptDisable with the IRQ
\* of the mapper pending since before it
ClearsDisable ==
  /\ last.op = "step" /\ last.arg \in {88, 40, 64} /\ last.thrown = ""
  /\ getFlag(pre.cpu.P, InterruptDisable) /\ ~getFlag(cpu.P, InterruptDisable)
  /\ pre.mapper.irqPending /\ mapper.irqPending

\* the step from this state to the next is an interrupt entry through vector at
EntryNext(at) ==
  /\ cpu'.PC = at
  /\ cpu'.SP = (cpu.SP - 3) % 256
  /\ getFlag(cpu'.P, InterruptDisable)
  /\ Peek(M', 256 + ((cpu.SP - 1) % 256)) = Lo(cpu.PC)

\* the PPU sub-step just made entered the IRQ handler
IrqEntered ==
  /\ last.op = "ppuStep"
  /\ cpu.PC = HandlerAt.irq
  /\ cpu.SP = (pre.cpu.SP - 3) % 256

\* a pending IRQ stays pending over a PPU sub-step, and the handler is
\* entered only from a state with InterruptDisable clear
IrqIsLevel ==
  /\ (last.op = "ppuStep" /\ pre.mapper.irqPending) => mapper.irqPending
  /\ IrqEntered => (~getFlag(pre.cpu.P, InterruptDisable) /\ pre.mapper.irqPending)


(***************************************************************************)
(* Harness on Mapper4's A12 filter: ppuRead and ppuWrite called with       *)
(* addresses of both pattern tables and of the nametable range.  cnt.a12   *)
(* counts, for the accesses below $2000 (the ones that reach trackA12),    *)
(* the accesses with A12 = 0 made in a row up to now (low) and up to the   *)
(* access before (was).                                                    *)
(***************************************************************************)
M4AccessAddrs == {0, 4095, 4096, 8191, 8192, 12288}

A12Of(a) == (a \div 4096) % 2

Counted(acc, a) ==
  IF a % 16384 >= 8192 THEN acc
  ELSE [low |-> IF A12Of(a) = 0 THEN acc.low + 1 ELSE 0, was |-> acc.low]

M4Access ==
  /\ cnt.steps < MaxM4Accesses
  /\ \E a \in M4AccessAddrs, w \in BOOLEAN :
       /\ Commit([M EXCEPT !.mapper = IF w THEN Mapper4_ppuWrite(@, a, 85)
                                       ELSE Mapper4_ppuTap(@, a)])
       /\ last' = [NoLast EXCEPT !.op = IF w THEN "ppuWrite" ELSE "ppuRead",
                                 !.arg = a]
       /\ cnt' = [cnt EXCEPT !.steps = @ + 1, !.a12 = Counted(@, a)]
  /\ UNCHANGED <<drv, pad, padh>>

\* $C000 = 1, $C001, $E001
M4Arm ==
  /\ cnt.calls < MaxM4Calls
  /\ Commit([M EXCEPT !.mapper =
       Mapper4_cpuWrite(Mapper4_cpuWrite(Mapper4_cpuWrite(@, 49152, 1), 49153, 0),
                        57345, 0)])
  /\ last' = [NoLast EXCEPT !.op = "cpuWrite", !.arg = 57345]
  /\ cnt' = [cnt EXCEPT !.calls = @ + 1]
  /\ UNCHANGED <<drv, pad, padh>>

NextM4Filter == M4Access \/ M4Arm

SpecM4Filter ==
  InitWith(Mapper4_reset(Mapper4_new(TestPrg, TestChr, "Horizontal")))
    /\ [][NextM4Filter]_vars


(***************************************************************************)
(* Harness on Mapper1 with 1, 2, 3 or 5 PRG banks of 16 KiB, every bank    *)
(* filled with its index: write5 to the control and PRG bank registers,    *)
(* and reset.                                                              *)
(***************************************************************************)
InitM1Bank ==
  \E n \in {1, 2, 3, 5} :
    InitWith(Mapper1_new([size |-> n * 16384, unit |-> 16384],
                         [size |-> 32768, unit |-> 4096], "Horizontal"))

\* write5(mapper, a, v)
M1BankWrite5 ==
  /\ cnt.writes < MaxM1BankOps
  /\ \E w \in {<<32768, 12>>, <<32768, 8>>, <<57344, 0>>, <<57344, 1>>,
               <<57344, 2>>, <<57344, 4>>} :
       /\ Commit([M EXCEPT !.mapper = write5(@, w[1], w[2])])
       /\ last' = [NoLast EXCEPT !.op = "write5", !.arg = w[1], !.val = w[2]]
       /\ cnt' = [cnt EXCEPT !.writes = @ + 1]
  /\ UNCHANGED <<drv, pad, padh>>

NextM1Bank == M1BankWrite5 \/ M1Reset

SpecM1Bank == InitM1Bank /\ [][NextM1Bank]_vars


(***************************************************************************)
(* Harness on Mapper1 as the cartridge loader builds it: the mirroring of  *)
(* the header is either one, and no register has been written yet.         *)
(***************************************************************************)
InitM1Hdr ==
  \E n \in {2, 4}, mir \in {"Horizontal", "Vertical"} :
    InitWith(Mapper1_new([size |-> n * 16384, unit |-> 16384],
                         [size |-> 32768, unit |-> 4096], mir))

SpecM1Hdr == InitM1Hdr /\ [][NextM1]_vars


(***************************************************************************)
(* Properties                                                              *)
(***************************************************************************)
StackAt(r, sp) == At(r, 256 + (sp % 256))
RamCells == {0, 1, 16, 511, 512, 767, 2047}
ProbeAddrs == {c + k * 2048 : c \in RamCells, k \in 0..3}

\* C1: after Memory.write(a, v) with a in $0000..$1FFF, every address of
\* $0000..$1FFF congruent to a modulo $800 reads v, and every other RAM cell
\* reads what it read before the write.
C1_RamMirror ==
  (last.op = "write" /\ last.arg < 8192) =>
     /\ \A b \in ProbeAddrs \cup {last.arg} :
          Peek(M, b) = IF b % 2048 = last.arg % 2048 THEN last.val ELSE Peek(pre, b)
     /\ \A i \in (DOMAIN ram) \cup (DOMAIN pre.ram) :
          i # last.arg % 2048 => At(ram, i) = At(pre.ram, i)
     /\ DOMAIN ram \subseteq 0..2047

C1_Witness ==
  /\ last.op = "write" /\ last.arg = 6656 /\ last.val = 85
  /\ Peek(M, 512) = 85 /\ Peek(pre, 512) = 2 /\ Peek(M, 16) = 2

\* C2: after Cpu6502.reset() from any CPU state, SP = $FD, InterruptDisable
\* and Unused are set in P, and PC is the little-endian word the bus holds at
\* $FFFC/$FFFD.
C2_ResetVector ==
  (last.op = "reset") =>
     /\ cpu.SP = 253
     /\ getFlag(cpu.P, InterruptDisable)
     /\ getFlag(cpu.P, Unused)
     /\ cpu.PC = Peek(pre, 65533) * 256 + Peek(pre, 65532)
     /\ mapper.kind = "nrom" =>
          cpu.PC = PrgAt(mapper, 16381) * 256 + PrgAt(mapper, 16380)

C2_Witness ==
  /\ last.op = "reset" /\ cpu.PC = 49152 /\ pre.cpu.SP # 253 /\ cnt.steps > 0

\* C3: Cpu6502.reset() from any CPU state leaves A = X = Y = 0 and P exactly
\* InterruptDisable | Unused ($24).
C3_ResetClearsRegisters ==
  (last.op = "reset") => (cpu.A = 0 /\ cpu.X = 0 /\ cpu.Y = 0 /\ cpu.P = 36)

\* C4: the stack lives in page 1 and SP wraps modulo 256: every byte pushed
\* and not yet pulled sits at $0100|SP-at-the-push, consecutive pushes go to
\* consecutive descending cells modulo 256, SP is one below the last push, and
\* every pull returns the byte of the matching push and restores the SP that
\* push started from.
C4_StackDiscipline ==
  /\ \A k \in 1..Len(shadow) :
       /\ shadow[k].sp \in 0..255
       /\ At(ram, 256 + shadow[k].sp) = shadow[k].v
  /\ \A k \in 1..(Len(shadow) - 1) : shadow[k + 1].sp = (shadow[k].sp - 1) % 256
  /\ (shadow # <<>>) => cpu.SP = (shadow[Len(shadow)].sp - 1) % 256
  /\ \A j \in 1..Len(last.pulled) :
       (last.pulled[j].e # NoEntry) =>
          /\ last.pulled[j].val = last.pulled[j].e.v
          /\ last.pulled[j].sp = last.pulled[j].e.sp
  /\ (last.op = "step" /\ last.arg = 72) =>
       /\ StackAt(ram, pre.cpu.SP) = pre.cpu.A
       /\ cpu.SP = (pre.cpu.SP - 1) % 256
  /\ (last.op = "step" /\ last.arg = 104) =>
       /\ cpu.SP = (pre.cpu.SP + 1) % 256
       /\ cpu.A = StackAt(pre.ram, cpu.SP)

\* two pushes from SP = $01 (the second at SP = $00 wraps to $FF) and two pulls
C4_Witness ==
  /\ last.op = "step" /\ last.arg = 40
  /\ Len(last.pulled) = 1 /\ last.pulled[1].e.sp = 1
  /\ cpu.SP = 1 /\ pre.cpu.SP = 0
  /\ StackAt(ram, 0) = pre.cpu.A

\* the three bytes of an interrupt entry and the registers after it
EntryPushed(status, vecLo) ==
  /\ StackAt(ram, pre.cpu.SP) = Hi(pre.cpu.PC)
  /\ StackAt(ram, pre.cpu.SP - 1) = Lo(pre.cpu.PC)
  /\ StackAt(ram, pre.cpu.SP - 2) = status
  /\ cpu.SP = (pre.cpu.SP - 3) % 256
  /\ cpu.P = BitOr(pre.cpu.P, InterruptDisable)
  /\ cpu.PC = Peek(pre, vecLo + 1) * 256 + Peek(pre, vecLo)
  /\ cpu.A = pre.cpu.A /\ cpu.X = pre.cpu.X /\ cpu.Y = pre.cpu.Y

\* C5: nmi() is taken whatever InterruptDisable is; it pushes PC high, PC low,
\* then P with Break = 0 and Unused = 1, sets InterruptDisable and loads PC
\* from $FFFA/$FFFB; A, X, Y and the other flags are unchanged.
C5_NmiEntry ==
  (last.op = "nmi") =>
     EntryPushed(BitOr(BitClear(pre.cpu.P, Break), Unused), 65530)

C5_Witness ==
  /\ last.op = "nmi" /\ getFlag(pre.cpu.P, InterruptDisable)
  /\ getFlag(pre.cpu.P, Break) /\ cpu.PC = 36864 /\ pre.cpu.PC > 32768

\* C6: irq() with InterruptDisable set changes nothing (registers and all
\* memory); with InterruptDisable clear it makes the NMI entry sequence with
\* the vector $FFFE/$FFFF.
C6_IrqGate ==
  (last.op = "irq") =>
     IF getFlag(pre.cpu.P, InterruptDisable)
     THEN cpu = pre.cpu /\ ram = pre.ram /\ ppu = pre.ppu /\ mapper = pre.mapper
     ELSE EntryPushed(BitOr(BitClear(pre.cpu.P, Break), Unused), 65534)

C6_Witness ==
  /\ last.op = "irq" /\ ~getFlag(pre.cpu.P, InterruptDisable)
  /\ cpu.PC = 36864 /\ getFlag(cpu.P, InterruptDisable)

\* C7: BRK at address a pushes the return address a + 2, then P with Break = 1
\* and Unused = 1, sets InterruptDisable and loads PC from $FFFE/$FFFF, also
\* when InterruptDisable was already set.
C7_BrkEntry ==
  (last.op = "step" /\ last.arg = 0) =>
     /\ StackAt(ram, pre.cpu.SP) * 256 + StackAt(ram, pre.cpu.SP - 1)
          = (pre.cpu.PC + 2) % 65536
     /\ StackAt(ram, pre.cpu.SP - 2) = BitOr(pre.cpu.P, Break + Unused)
     /\ cpu.SP = (pre.cpu.SP - 3) % 256
     /\ cpu.P = BitOr(pre.cpu.P, InterruptDisable)
     /\ cpu.PC = Peek(pre, 65535) * 256 + Peek(pre, 65534)

\* C8: JSR at a pushes a + 2 (high, then low) and jumps to its operand; RTS
\* pulls low then high and continues at the pulled word + 1; an RTS that pulls
\* the two bytes a JSR at a pushed resumes at a + 3 with the SP that JSR
\* started from, at any nesting depth.
C8_JsrRts ==
  /\ (last.op = "step" /\ last.arg = 32) =>
       /\ StackAt(ram, pre.cpu.SP) = Hi(pre.cpu.PC + 2)
       /\ StackAt(ram, pre.cpu.SP - 1) = Lo(pre.cpu.PC + 2)
       /\ cpu.SP = (pre.cpu.SP - 2) % 256
       /\ cpu.PC = Peek(pre, pre.cpu.PC + 2) * 256 + Peek(pre, pre.cpu.PC + 1)
  /\ (last.op = "step" /\ last.arg = 96) =>
       /\ Len(last.pulled) = 2
       /\ last.pulled[1].sp = (pre.cpu.SP + 1) % 256
       /\ last.pulled[2].sp = (pre.cpu.SP + 2) % 256
       /\ cpu.SP = (pre.cpu.SP + 2) % 256
       /\ cpu.PC = (last.pulled[2].val * 256 + last.pulled[1].val + 1) % 65536
       /\ (last.pulled[1].e.jsr >= 0 /\ last.pulled[2].e.jsr = last.pulled[1].e.jsr) =>
            /\ cpu.PC = (last.pulled[1].e.jsr + 3) % 65536
            /\ cpu.SP = last.pulled[2].e.sp

\* the outer RTS of two nested calls
C8_Witness ==
  /\ last.op = "step" /\ last.arg = 96
  /\ cpu.PC = 49155 /\ pre.cpu.PC = 32776
  /\ last.pulled[1].e.jsr = 49152 /\ Len(shadow) = 0

\* C10: a write of P to $4014 copies the 256 bytes at P<<8 .. (P<<8)|$FF into
\* OAM from OAMADDR on, wrapping modulo 256.
C10_OamDma ==
  (last.op = "write" /\ last.arg = 16404) =>
     \A i \in 0..255 :
        At(ppu.oam, (pre.ppu.oamaddr + i) % 256) = Peek(pre, last.val * 256 + i)

\* an instruction has completed and ppuStepMany has returned
AfterInstruction == drv.pc # "ppu" /\ drv.mode # "none" /\ cnt.instr > 0

C11_PadProtocol ==
  (last.op = "readBit") =>
     IF pad.strobe
     THEN /\ last.val = (IF pad.buttons["A"] THEN 1 ELSE 0)
          /\ pad.shiftIndex = padh.idx
     ELSE padh.latched =>
            last.val = IF padh.n <= 8
                       THEN (IF BUTTON_ORDER[padh.n] \in padh.snap THEN 1 ELSE 0)
                       ELSE 1

\* the eighth read of a snapshot with B and Right held
C11_Witness ==
  /\ last.op = "readBit" /\ padh.latched /\ padh.n = 8
  /\ padh.snap = {"B", "Right"} /\ last.val = 1 /\ pad.shiftIndex = 8

\* C12: a read of PPUSTATUS ($2002 or a mirror) returns bits 7..5 of the
\* status and nothing else, clears bit 7, keeps bits 6..0 (so the sprite-0-hit
\* and overflow bits survive) and clears the write toggle w; the write to
\* $2005 or $2006 that follows it is handled as a first write.
C12_StatusRead ==
  /\ (last.op = "read" /\ last.arg % 8 = 2) =>
        /\ last.val = (pre.ppu.ppustatus \div 32) * 32
        /\ ppu.ppustatus = pre.ppu.ppustatus % 128
        /\ ~ppu.w
  /\ (last.op = "write" /\ last.prev.op = "read" /\ last.prev.arg % 8 = 2) =>
        /\ (last.arg % 8 = 5) =>
              /\ ppu.w
              /\ ppu.x = last.val % 8
              /\ ppu.t % 32 = last.val \div 8
              /\ ppu.t \div 32 = pre.ppu.t \div 32
        /\ (last.arg % 8 = 6) =>
              /\ ppu.w
              /\ (ppu.t \div 256) % 64 = last.val % 64
              /\ ppu.t % 256 = pre.ppu.t % 256
              /\ ppu.v = pre.ppu.v

C12_Witness ==
  /\ last.op = "write" /\ last.arg = 8197 /\ last.val = 18
  /\ last.prev.op = "read" /\ last.prev.arg = 8194 /\ last.prev.val = 224
  /\ last.prev.ppu.w
  /\ ppu.ppustatus = 96 /\ ppu.x = 2 /\ ppu.w

\* C13: two consecutive writes a, b to PPUSCROLL ($2005) that start with w = 0
\* leave x = a & 7, coarse X (t bits 0..4) = a >> 3, coarse Y (t bits 5..9) =
\* b >> 3 and fine Y (t bits 12..14) = b & 7; bits 10..11 of t and all of v
\* are as before the two writes, and w is 0 again.
C13_ScrollWrites ==
  (/\ last.op = "write" /\ last.arg % 8 = 5
   /\ last.prev.op = "write" /\ last.prev.arg % 8 = 5 /\ ~last.prev.ppu.w) =>
     /\ ppu.x = last.prev.val % 8
     /\ ppu.t % 32 = last.prev.val \div 8
     /\ (ppu.t \div 32) % 32 = last.val \div 8
     /\ (ppu.t \div 4096) % 8 = last.val % 8
     /\ (ppu.t \div 1024) % 4 = (last.prev.ppu.t \div 1024) % 4
     /\ ppu.v = last.prev.ppu.v
     /\ ~ppu.w

C13_Witness ==
  /\ last.op = "write" /\ last.arg = 8197 /\ last.val = 52
  /\ last.prev.op = "write" /\ last.prev.arg = 8197 /\ last.prev.val = 18
  /\ ~last.prev.ppu.w /\ last.prev.ppu.t = 3072
  /\ ppu.x = 2 /\ ppu.t = 19650 /\ ~ppu.w

\* C14: two consecutive writes hi, lo to PPUADDR ($2006) that start with
\* w = 0 leave t = v = ((hi & 0x3F) << 8) | lo and w = 0; the first write
\* alone sets t bits 8..13 to hi & 0x3F, clears t bit 14, keeps t bits 0..7
\* and does not touch v; w is shared with $2005: a write to either register
\* that finds w = 1 is handled as a second write.
C14_AddrWrites ==
  /\ (/\ last.op = "write" /\ last.arg % 8 = 6
      /\ last.prev.op = "write" /\ last.prev.arg % 8 = 6 /\ ~last.prev.ppu.w) =>
        /\ ppu.t = (last.prev.val % 64) * 256 + last.val
        /\ ppu.v = ppu.t
        /\ ~ppu.w
  /\ (last.op = "write" /\ last.arg % 8 = 6 /\ ~pre.ppu.w) =>
        /\ ppu.t = (last.val % 64) * 256 + (pre.ppu.t % 256)
        /\ ppu.v = pre.ppu.v
        /\ ppu.w
  /\ (last.op = "write" /\ last.arg % 8 = 6 /\ pre.ppu.w) =>
        /\ ppu.t = ((pre.ppu.t \div 256) % 128) * 256 + last.val
        /\ ppu.v = ppu.t
        /\ ~ppu.w
  /\ (last.op = "write" /\ last.arg % 8 = 5 /\ pre.ppu.w) =>
        /\ ppu.x = pre.ppu.x
        /\ ppu.t % 32 = pre.ppu.t % 32
        /\ (ppu.t \div 32) % 32 = last.val \div 8
        /\ ~ppu.w

C14_Witness ==
  /\ last.op = "write" /\ last.arg = 8198 /\ last.val = 18
  /\ last.prev.op = "write" /\ last.prev.arg = 8198 /\ last.prev.val = 255
  /\ ~last.prev.ppu.w /\ last.prev.ppu.t >= 16384
  /\ pre.ppu.v = 0 /\ pre.ppu.t < 16384
  /\ ppu.t = 16146 /\ ppu.v = 16146 /\ ~ppu.w

\* C18: an access of the CPU at an address a in $2000..$3FFF has the result
\* and the effect of the same access at $2000 | (a & 7); a read of one of the
\* write-only registers $2000, $2001, $2003, $2005, $2006 (or a mirror)
\* returns 0 and changes nothing in the PPU.
C18_RegisterMirrors ==
  /\ (last.op = "write" /\ last.arg >= 8192 /\ last.arg <= 16383) =>
        ppu = Memory_write(pre, 8192 + (last.arg % 8), last.val).ppu
  /\ (last.op = "read" /\ last.arg >= 8192 /\ last.arg <= 16383) =>
        /\ last.val = Memory_read(pre, 8192 + (last.arg % 8)).val
        /\ ppu = Memory_read(pre, 8192 + (last.arg % 8)).m.ppu
        /\ (last.arg % 8 \in {0, 1, 3, 5, 6}) => (last.val = 0 /\ ppu = pre.ppu)

C18_Witness ==
  /\ last.op = "read" /\ last.arg = 16378 /\ last.val = 224
  /\ pre.ppu.w /\ ~ppu.w /\ ppu.ppustatus = 96
  /\ last.prev.op = "write" /\ last.prev.arg = 16381 /\ ppu.x = 7

\* C15: a read of PPUDATA ($2007) with (v & 0x3FFF) < 0x3F00 returns the
\* previous read buffer and refills the buffer with the byte at v; with v in
\* the palette range it returns the palette byte at once and refills the
\* buffer from (v - 0x1000) & 0x3FFF.  After every read or write of $2007,
\* v has advanced by 1 (PPUCTRL bit 2 clear) or 32 (set), modulo 0x8000.
C15_DataPort ==
  /\ (last.op = "read" /\ last.arg % 8 = 7 /\ pre.ppu.v % 16384 < 16128) =>
        /\ last.val = pre.ppu.vramBuffer
        /\ ppu.vramBuffer = readPpuMemory(pre, pre.ppu.v % 16384)
  /\ (last.op = "read" /\ last.arg % 8 = 7 /\ pre.ppu.v % 16384 >= 16128) =>
        /\ last.val = readPpuMemory(pre, pre.ppu.v % 16384)
        /\ ppu.vramBuffer = readPpuMemory(pre, ((pre.ppu.v % 16384) - 4096) % 16384)
  /\ (last.op \in {"read", "write"} /\ last.arg % 8 = 7) =>
        ppu.v = (pre.ppu.v + (IF (pre.ppu.ppuctrl \div 4) % 2 = 1 THEN 32 ELSE 1))
                  % 32768

C15_Witness ==
  /\ last.op = "read" /\ last.arg = 8199 /\ last.val = 34
  /\ pre.ppu.v = 16133 /\ pre.ppu.vramBuffer = 0
  /\ ppu.vramBuffer = 17 /\ ppu.v = 16134

\* C16: in the palette range two addresses name the same cell exactly when
\* they are equal modulo 32 or are the two members of one of the pairs
\* ($3F10,$3F00), ($3F14,$3F04), ($3F18,$3F08), ($3F1C,$3F0C), mirrors modulo
\* 32 included: a write through one address is read back through every
\* address of its cell and changes what no other address reads, and a read
\* returns what the address reduced to $3F00-$3F0F/$3F1F reads.
C16_PaletteMirrors ==
  /\ (last.op = "vwrite" /\ last.arg >= 16128) =>
        \A b \in 16128..16383 :
          readPpuMemory(M, b) =
            IF \/ b % 32 = last.arg % 32
               \/ (last.arg % 4 = 0 /\ b % 16 = last.arg % 16)
            THEN last.val
            ELSE readPpuMemory(pre, b)
  /\ (last.op = "vread" /\ last.arg >= 16128) =>
        last.val = readPpuMemory(M, 16128 + (IF last.arg % 4 = 0
                                             THEN last.arg % 16
                                             ELSE last.arg % 32))

C16_Witness ==
  /\ last.op = "vwrite" /\ last.arg = 16144 /\ last.val = 34
  /\ readPpuMemory(pre, 16128) = 17 /\ readPpuMemory(pre, 16176) = 17
  /\ readPpuMemory(M, 16128) = 34 /\ readPpuMemory(M, 16176) = 34

\* C17: in $2000-$3EFF two addresses name the same cell exactly when their
\* offsets in the 1 KiB table agree and, with the attached cartridge's
\* mirroring being horizontal, their tables are both in {0,1} or both in
\* {2,3}; with any other mirroring (vertical, four-screen, no cartridge)
\* their tables have the same parity.  The table is taken modulo 4, so
\* $3000-$3EFF aliases $2000-$2EFF.  The mirroring is the one of the
\* cartridge attached at the time of the access.
C17_NametableMirrors ==
  /\ (last.op = "vwrite" /\ last.arg >= 8192 /\ last.arg < 16128) =>
        \A k \in 0..7, o \in {5, 6} :
          readPpuMemory(M, 8192 + k * 1024 + o) =
            IF /\ o = last.arg % 1024
               /\ IF mapper.kind # "none" /\ mapper.mirroring = "Horizontal"
                  THEN (k % 4) \div 2 = ((last.arg \div 1024) % 4) \div 2
                  ELSE k % 2 = (last.arg \div 1024) % 2
            THEN last.val
            ELSE readPpuMemory(pre, 8192 + k * 1024 + o)
  /\ (last.op = "vread" /\ last.arg >= 8192 /\ last.arg < 16128) =>
        last.val = readPpuMemory(M, 8192 + (last.arg % 1024) +
                     (IF mapper.kind # "none" /\ mapper.mirroring = "Horizontal"
                      THEN (((last.arg \div 1024) % 4) \div 2) * 2048
                      ELSE ((last.arg \div 1024) % 2) * 1024))
  /\ (last.op = "attach") => ppu = pre.ppu

C17_Witness ==
  /\ last.op = "vwrite" /\ last.arg = 9221 /\ last.val = 34
  /\ mapper.kind # "none" /\ mapper.mirroring = "Horizontal"
  /\ readPpuMemory(pre, 8197) = 17 /\ readPpuMemory(M, 8197) = 34
  /\ readPpuMemory(M, 12293) = 34 /\ readPpuMemory(M, 10245) = 0

\* C19: after n calls of step() from reset, and no read of PPUSTATUS, the
\* PPU is at cycle n mod 341 of line (n div 341) mod 262, the lines of a
\* frame being 0..260 followed by the pre-render line -1: the scanline
\* advances once every 341 steps and a frame has 262 scanlines.  The VBlank
\* bit is set on entering scanline 241 and cleared on entering the
\* pre-render line, so it is set throughout 241..260 and clear throughout
\* -1..240.
C19_ScanTiming ==
  (last.op \in {"new", "tick"}) =>
     /\ ppu.cycle = cnt.steps % 341
     /\ ppu.scanline = IF (cnt.steps \div 341) % 262 = 261 THEN -1
                       ELSE (cnt.steps \div 341) % 262
     /\ ((ppu.ppustatus \div 128) % 2 = 1) <=>
           (ppu.scanline >= 241 /\ ppu.scanline <= 260)

C19_Witness ==
  /\ last.op = "tick" /\ cnt.steps = 82181
  /\ pre.ppu.scanline = 240 /\ pre.ppu.cycle = 340 /\ pre.ppu.ppustatus = 0
  /\ ppu.scanline = 241 /\ ppu.cycle = 0 /\ ppu.ppustatus = 128

\* C20: the only step of the PPU that raises the NMI is the one that enters
\* scanline 241 with nmiEnabled set; in that same iteration of ppuStepMany
\* the driver makes the CPU's NMI entry and clears nmiOccurred, so that no
\* instruction ever finds the flag set.  Every other iteration, and every
\* instruction (a write of PPUCTRL that enables the NMI in the middle of
\* VBlank included), leaves the flag clear and delivers nothing: at most one
\* NMI per frame.
C20_NmiDelivery ==
  /\ ~ppu.nmiOccurred
  /\ (last.op = "ppuStep") =>
        IF pre.ppu.scanline = 240 /\ pre.ppu.cycle = 340 /\ pre.ppu.nmiEnabled
        THEN EntryPushed(BitOr(BitClear(pre.cpu.P, Break), Unused), 65530)
        ELSE cpu = pre.cpu /\ ram = pre.ram

C20_Witness ==
  /\ last.op = "ppuStep" /\ pre.ppu.scanline = 240 /\ pre.ppu.cycle = 340
  /\ pre.ppu.nmiEnabled /\ ppu.scanline = 241 /\ ppu.ppustatus = 128
  /\ pre.cpu.PC = 32773 /\ cpu.PC = 36864 /\ cpu.SP = 250
(***************************************************************************)
(* Sprite 0 hit.                                                           *)
(***************************************************************************)
\* sprite 0 and the background are both opaque at a pixel of the screen that
\* the left-column clipping of PPUMASK bits 1 and 2 does not exclude
Sprite0Overlap ==
  \E x \in 0..7, y \in 0..(spriteHeight(ppu) - 1) :
    /\ (At(ppu.oam, 0) + 1) % 256 < 240
    /\ At(ppu.oam, 3) + x < 256
    /\ ((At(ppu.oam, 0) + 1) % 256) + y < 240
    /\ At(ppu.oam, 3) + x >= 8 \/ BitAnd(ppu.ppumask, 6) = 6
    /\ sprite0Bits(M, x, y) # 0
    /\ bgMaskAt(M, At(ppu.oam, 3) + x, ((At(ppu.oam, 0) + 1) % 256) + y) # 0

\* C21: after a frame is rendered with background and sprites enabled,
\* PPUSTATUS bit 6 is set exactly when sprite 0 and the background overlap
\* opaquely outside the clipped left column, whatever the priority bit.
C21_Sprite0Hit ==
  (last.op = "renderFrame" /\ BitAnd(ppu.ppumask, 24) = 24)
    => ((BitAnd(ppu.ppustatus, 64) # 0) <=> Sprite0Overlap)


\* C22: once PPUSTATUS bit 6 is set it stays set, across PPUSTATUS reads too,
\* until the PPU enters the pre-render scanline -1; entering it clears bits 7,
\* 6 and 5 together.
C22_HitClearedAtPreRender ==
  /\ (last.op \in {"tick", "read"} /\ BitAnd(pre.ppu.ppustatus, 64) # 0
        /\ ~(ppu.scanline = -1 /\ pre.ppu.scanline # -1))
       => BitAnd(ppu.ppustatus, 64) # 0
  /\ (last.op = "tick" /\ ppu.scanline = -1 /\ pre.ppu.scanline # -1)
       => BitAnd(ppu.ppustatus, 224) = 0


(***************************************************************************)
(* MMC3                                                                    *)
(***************************************************************************)
\* the clocks of one scanline, whoever made them: at most one, one only if the
\* background was shown during a visible scanline, and one if a step found it shown
AllClocksOk(l) ==
  /\ l.all <= 1
  /\ l.all = 1 => (l.on /\ l.line \in 0..239)
  /\ (l.bg /\ l.line \in 0..239) => l.all = 1

\* C23 as stated: whatever PPU steps, PPUMASK writes, $2006/$2007 accesses and
\* frame renders are interleaved, the MMC3 IRQ counter is clocked exactly once
\* per visible scanline with the background enabled and never in a scanline
\* in which the background stays disabled.
C23_ClockedOncePerScanline == AllClocksOk(cnt.line) /\ AllClocksOk(cnt.done)

StepClocksOk(l) == l.step = (IF l.bg /\ l.line \in 0..239 THEN 1 ELSE 0)

\* C23, amended: Ppu.step clocks the MMC3 IRQ counter exactly once per visible
\* scanline in which a step finds the background enabled (at the first such
\* step) and never in another scanline, whatever is interleaved; register
\* writes never clock it, but PPUDATA reads of pattern-table addresses and
\* frame renders are A12 taps of their own and clock it as well.
C23_StepClocksOncePerScanline ==
  /\ StepClocksOk(cnt.line)
  /\ StepClocksOk(cnt.done)
  /\ (last.op \notin {"tick", "read", "renderFrame"}) => mapper.clocks = pre.mapper.clocks

\* two scanlines in a row clocked once each by the steps, and a clock made by
\* a read or a render besides
C23_Witness ==
  /\ cnt.done.line = 0 /\ cnt.done.step = 1
  /\ cnt.line.line = 1 /\ cnt.line.step = 1
  /\ mapper.clocks = 3


\* C24: on a qualifying A12 rising edge the counter is reloaded from the latch
\* (and the reload flag cleared) if a reload is pending or the counter is 0,
\* else decremented; the IRQ is raised exactly if it is enabled and the
\* counter is then 0.  After $C000 = L, $C001, $E001 the IRQ is pending from
\* the (L+1)-th edge on and not before.
C24_CounterClock ==
  /\ last.op = "edge" =>
       /\ mapper.clocks = pre.mapper.clocks + 1
       /\ mapper.irqCounter =
            (IF pre.mapper.irqReload \/ pre.mapper.irqCounter = 0
             THEN pre.mapper.irqLatch ELSE pre.mapper.irqCounter - 1)
       /\ mapper.irqReload =
            (pre.mapper.irqReload /\ ~(pre.mapper.irqReload \/ pre.mapper.irqCounter = 0))
       /\ mapper.irqPending =
            (pre.mapper.irqPending \/ (mapper.irqEnabled /\ mapper.irqCounter = 0))
  /\ (cnt.arm.stage = 3 /\ cnt.arm.clean) =>
       (mapper.irqPending <=> cnt.arm.edges >= cnt.arm.L + 1)

\* latch 2: the third edge after the three writes has raised the IRQ
C24_Witness ==
  /\ cnt.arm.stage = 3 /\ cnt.arm.clean /\ cnt.arm.L = 2 /\ cnt.arm.edges = 3
  /\ last.op = "edge"
  /\ mapper.irqPending /\ ~pre.mapper.irqPending

\* C25: a pending IRQ is a level: consumeIrq returns it and changes nothing;
\* it stays pending over consumeIrq, edges and writes, except a write to an
\* even address of $E000-$FFFF, which clears it and disables the IRQ.
C25_IrqLevel ==
  /\ last.op = "consumeIrq" =>
       (mapper = pre.mapper /\ (last.val = 1) = pre.mapper.irqPending)
  /\ (pre.mapper.irqPending
        /\ ~(last.op = "cpuWrite" /\ last.arg >= 57344 /\ last.arg % 2 = 0))
       => mapper.irqPending
  /\ (last.op = "cpuWrite" /\ last.arg >= 57344 /\ last.arg % 2 = 0)
       => (~mapper.irqPending /\ ~mapper.irqEnabled)

\* a pending IRQ has been through a write of $E001 and is pending still
C25_Witness ==
  /\ last.op = "cpuWrite" /\ last.arg = 57345
  /\ pre.mapper.irqPending /\ mapper.irqPending

\* C26: with N >= 2 PRG banks of 8 KiB the windows at $8000, $A000, $C000 and
\* $E000 read the banks (R6, R7, N-2, N-1) in PRG mode 0 and (N-2, R7, R6, N-1)
\* in PRG mode 1, R6 and R7 taken modulo N.
C26_PrgWindows ==
  \A w \in 0..3, off \in {0, 8191} :
    Mapper4_cpuRead(mapper, 32768 + w * 8192 + off) =
      (IF w = 3 THEN mapper.prgBankCount - 1
       ELSE IF w = 1 THEN mapper.bankRegs[7] % mapper.prgBankCount
       ELSE IF (w = 0) = (mapper.prgMode = 0)
         THEN mapper.bankRegs[6] % mapper.prgBankCount
       ELSE mapper.prgBankCount - 2)

\* PRG mode 1 with 5 written to R6 of a cartridge of 4 banks: $C000 reads bank 1
C26_Witness ==
  /\ mapper.prgBankCount = 4 /\ mapper.prgMode = 1
  /\ last.op = "cpuWrite" /\ last.arg = 32769 /\ last.val = 5
  /\ mapper.bankSelect = 6
  /\ Mapper4_cpuRead(mapper, 49152) = 1
  /\ Mapper4_cpuRead(mapper, 32768) = 2


\* the four registers of the MMC1, in the order of address bits 14..13
M1Regs(mp) == <<mp.control, mp.chrBank0, mp.chrBank1, mp.prgBank>>

\* the serial port, the PRG bank register keeping its value modulo prgWidth
SerialPort(prgWidth) ==
  /\ (last.op = "cpuWrite" /\ cnt.ser.done) =>
       /\ mapper.shift = 16 /\ mapper.writes = 0
       /\ M1Regs(mapper) =
            [M1Regs(pre.mapper) EXCEPT ![cnt.ser.reg + 1] =
               IF cnt.ser.reg = 3 THEN cnt.ser.val % prgWidth ELSE cnt.ser.val]
  /\ (last.op = "cpuWrite" /\ last.val < 128 /\ ~cnt.ser.done) =>
       (M1Regs(mapper) = M1Regs(pre.mapper) /\ mapper.writes = cnt.ser.n)
  /\ (last.op = "cpuWrite" /\ last.val >= 128) =>
       /\ mapper.shift = 16 /\ mapper.writes = 0
       /\ M1Regs(mapper) =
            [M1Regs(pre.mapper) EXCEPT ![1] = BitOr(pre.mapper.control, 12)]

\* C27 as stated: from an empty shift register, five writes to $8000-$FFFF
\* with bit 7 clear commit the 5-bit value made LSB first of their bits 0 to
\* the register chosen by address bits 14..13 of the fifth write (control,
\* CHR bank 0, CHR bank 1, PRG bank) and empty the shift register; a write
\* with bit 7 set discards the bits taken so far and sets control bits 3..2.
C27_SerialPort == SerialPort(32)

\* C27 amended: the same, the PRG bank register keeping only the low four
\* bits of the value committed.
C27_SerialPortPrg4 == SerialPort(16)

\* fifth write at $C000 after one bit, a bit 7 write and five more bits:
\* CHR bank 1 = 21 (1, 0, 1, 0, 1)
C27_Witness ==
  /\ last.op = "cpuWrite" /\ cnt.ser.done /\ cnt.ser.reg = 2 /\ cnt.ser.val = 21
  /\ mapper.chrBank1 = 21 /\ pre.mapper.chrBank1 = 0
  /\ last.arg = 49152 /\ cnt.writes = 7

\* C28: the PRG windows follow the control register and the PRG bank register
\* p (banks modulo the bank count): PRG mode 3, the mode after reset, reads
\* bank p at $8000 and the last bank at $C000; mode 2 reads bank 0 and bank p;
\* modes 0 and 1 read p with bit 0 cleared and the bank after it.
C28_PrgMapping ==
  /\ \A off \in {0, 16383} :
       /\ Mapper1_cpuRead(mapper, 32768 + off) =
            (IF (mapper.control \div 4) % 4 = 3 THEN mapper.prgBank
             ELSE IF (mapper.control \div 4) % 4 = 2 THEN 0
             ELSE (mapper.prgBank \div 2) * 2) % prgBankCount16k(mapper)
       /\ Mapper1_cpuRead(mapper, 49152 + off) =
            (IF (mapper.control \div 4) % 4 = 3 THEN prgBankCount16k(mapper) - 1
             ELSE IF (mapper.control \div 4) % 4 = 2 THEN mapper.prgBank
             ELSE (mapper.prgBank \div 2) * 2 + 1) % prgBankCount16k(mapper)
  /\ last.op = "reset" =>
       /\ (mapper.control \div 4) % 4 = 3
       /\ Mapper1_cpuRead(mapper, 32768) = 0
       /\ Mapper1_cpuRead(mapper, 49152) = prgBankCount16k(mapper) - 1

\* four banks, PRG mode 2, PRG bank 2 just committed: $8000 reads bank 0 and
\* $C000 bank 2
C28_Witness ==
  /\ prgBankCount16k(mapper) = 4 /\ (mapper.control \div 4) % 4 = 2
  /\ cnt.ser.done /\ cnt.ser.reg = 3 /\ mapper.prgBank = 2
  /\ Mapper1_cpuRead(mapper, 32768) = 0 /\ Mapper1_cpuRead(mapper, 49152) = 2


\* C29: a byte written to $6000-$7FFF of the MMC1 is read back at the same
\* address whatever register writes come between, also when written after a
\* reset, and a write to $6000-$7FFF changes nothing of what $8000-$FFFF reads.
C29_PrgRam ==
  /\ \A a \in DOMAIN cnt.ram : Mapper1_cpuRead(mapper, a) = cnt.ram[a]
  /\ (last.op = "cpuWrite" /\ last.arg < 32768) =>
       \A a \in {32768, 49151, 49152, 65535} :
         Mapper1_cpuRead(mapper, a) = Mapper1_cpuRead(pre.mapper, a)


\* C30: on UxROM with N banks of 16 KiB, $C000-$FFFF reads bank N-1 and
\* $8000-$BFFF bank v mod N, v being the value of the last write to
\* $8000-$FFFF (0 if none since reset); such a write changes neither the
\* mirroring reported nor the PRG-RAM nor the CHR contents.
C30_UxromBanks ==
  /\ \A off \in {0, 16383} :
       /\ Mapper2_cpuRead(mapper, 49152 + off) = mapper.prgRom.size \div 16384 - 1
       /\ Mapper2_cpuRead(mapper, 32768 + off) =
            cnt.sel % (mapper.prgRom.size \div 16384)
  /\ (last.op = "cpuWrite" /\ last.arg >= 32768) =>
       /\ mapper.mirroring = pre.mapper.mirroring
       /\ \A a \in {24576, 32767} :
            Mapper2_cpuRead(mapper, a) = Mapper2_cpuRead(pre.mapper, a)
       /\ \A a \in {0, 8191} :
            Mapper2_ppuRead(mapper, a) = Mapper2_ppuRead(pre.mapper, a)
       /\ mapper.prgRam = pre.mapper.prgRam /\ mapper.chrRam = pre.mapper.chrRam

\* four banks, PRG-RAM and CHR-RAM written, then 9 written to $8000: the low
\* window reads bank 1, the RAM bytes are still there
C30_Witness ==
  /\ mapper.prgRom.size = 65536
  /\ last.op = "cpuWrite" /\ last.arg = 32768 /\ last.val = 9
  /\ Mapper2_cpuRead(mapper, 32768) = 1 /\ Mapper2_cpuRead(pre.mapper, 32768) = 2
  /\ Mapper2_cpuRead(mapper, 24576) = 90
  /\ Mapper2_ppuRead(mapper, 8191) = 85


\* the bank registers, the mirroring and the IRQ state of a cartridge
BankState(mp) ==
  IF mp.kind = "mmc3" THEN
    <<mp.bankSelect, mp.bankRegs, mp.prgMode, mp.chrMode, mp.prgMap, mp.chrMap1k,
      mp.mirroring, mp.irqLatch, mp.irqCounter, mp.irqReload, mp.irqEnabled,
      mp.irqPending>>
  ELSE <<mp.selectedBank, mp.mirroring>>

\* C31: after the driver's reset the bank registers, the mirroring and the IRQ
\* state of the mapper attached have their power-on values, whatever was
\* written to the cartridge registers before.
C31_ResetReinitialisesMapper ==
  last.op = "reset" => BankState(mapper) = BankState(PowerOn(mapper.kind))


\* C32: a KIL/JAM opcode or an opcode without implementation makes
\* Cpu6502.step throw, and the driver stops: the run is paused, the PPU is
\* not stepped for that instruction, and the next thing to happen is an act
\* of the user (start, single step, reset), never a step of the running loop.
C32_KilStopsTheRun ==
  /\ []((last.op = "step" /\ last.arg \in KilOpcodes \cup UnknownOpcodes) =>
          /\ last.thrown # ""
          /\ ~drv.running /\ drv.pc = "idle" /\ drv.left = 0
          /\ ppu = pre.ppu)
  /\ [][last.thrown # "" =>
          /\ last'.op \in {"start", "step", "reset"}
          /\ ~drv.running]_vars

\* the single step after a KIL: the LDA #$01 behind it is executed
C32_Witness ==
  /\ last.op = "step" /\ last.arg = 169 /\ cpu.A = 1 /\ drv.mode = "step"
  /\ cnt.instr = 3 /\ cpu.PC = 32772


\* C33: bit 5 of P (Unused) is 1 in every state of the CPU: after
\* construction and after any reset, nmi, irq or instruction, PLP and RTI
\* with a pulled byte whose bit 5 is 0 included.
C33_UnusedAlwaysSet == getFlag(cpu.P, Unused)

\* a PLP or an RTI has just pulled a status byte with bit 5 clear
C33_Witness ==
  /\ last.op = "step" /\ last.arg \in {40, 64}
  /\ Len(last.pulled) >= 1
  /\ ~getFlag(last.pulled[1].val, Unused)
  /\ BitClear(cpu.P, Unused) = last.pulled[1].val


\* C34: an interrupt entry (nmi(), or irq() with InterruptDisable clear)
\* followed at once by RTI leaves PC and SP as the entry found them, and P as
\* the entry found it but for Break = 0 and Unused = 1; InterruptDisable in
\* particular is what it was before the entry.
C34_InterruptThenRti ==
  RtiAfterEntry =>
    /\ cpu.PC = cnt.int.cpu.PC
    /\ cpu.SP = cnt.int.cpu.SP
    /\ cpu.P = BitOr(BitClear(cnt.int.cpu.P, Break), Unused)
    /\ getFlag(cpu.P, InterruptDisable) = getFlag(cnt.int.cpu.P, InterruptDisable)

\* the entry found Break set in P and the stack pointer about to wrap
C34_Witness ==
  /\ RtiAfterEntry
  /\ getFlag(cnt.int.cpu.P, Break)
  /\ ~getFlag(cpu.P, Break)
  /\ cnt.int.cpu.SP < 3


\* C35: from a write of $E000 to the next write of $E001 the IRQ is never
\* pending, whatever the A12 edges do to the counter; a write of $E001 leaves
\* irqPending as it was, also with the counter at 0; a write to $A000-$BFFF
\* leaves latch, counter, reload, enabled and pending as they were.
C35_DisabledIrq ==
  /\ cnt.off = "off" => (~mapper.irqEnabled /\ ~mapper.irqPending)
  /\ (last.op = "edge" /\ ~pre.mapper.irqEnabled) => ~mapper.irqPending
  /\ (last.op = "cpuWrite" /\ last.arg >= 57344 /\ last.arg % 2 = 1)
       => (mapper.irqPending = pre.mapper.irqPending /\ mapper.irqEnabled)
  /\ (last.op = "cpuWrite" /\ last.arg >= 40960 /\ last.arg <= 49151)
       => IrqRegs(mapper) = IrqRegs(pre.mapper)

\* disabled by $E000, the counter went from the latch 1 down to 0 on two
\* edges, and $E001 has just been written: enabled, nothing pending
C35_Witness ==
  /\ last.op = "cpuWrite" /\ last.arg = 57345
  /\ cnt.off = "back"
  /\ pre.mapper.irqLatch = 1 /\ pre.mapper.irqCounter = 0 /\ pre.mapper.clocks >= 2
  /\ mapper.irqEnabled /\ ~mapper.irqPending


\* C36 as stated: an IRQ of the mapper raised while InterruptDisable is set
\* stays pending, and the PPU sub-step after the CLI, PLP or RTI that
\* clears the flag is the IRQ entry through $FFFE/$FFFF; the handler is not
\* entered again while the flag is set.
C36_IrqAfterClear ==
  /\ []IrqIsLevel
  /\ [][ClearsDisable => EntryNext(HandlerAt.irq)]_vars

\* C36: as above, except that the sub-step after the instruction is the NMI
\* entry when the PPU raises the NMI in it: nmi() sets InterruptDisable
\* before the IRQ of the mapper is looked at.
C36_IrqAfterClearOrNmi ==
  /\ []IrqIsLevel
  /\ [][ClearsDisable => (EntryNext(HandlerAt.irq) \/ EntryNext(HandlerAt.nmi))]_vars

\* the sub-step after a CLI was the IRQ entry, the IRQ having been masked
\* in the sub-steps before that instruction
C36_Witness ==
  /\ IrqEntered /\ cnt.since = 1
  /\ Peek(pre, pre.cpu.PC - 1) = 88
  /\ pre.mapper.irqPending
  /\ ~getFlag(pre.cpu.P, InterruptDisable)


\* C37: an access to the pattern tables clocks the IRQ counter exactly when it
\* has A12 = 1 and the 8 accesses before it, or more, had A12 = 0 in a row;
\* and whenever the filter holds a low streak of 8 or more, so that the next
\* access with A12 = 1 is such an edge, the cooldown is already 0.
C37_A12Filter ==
  /\ last.op \in {"ppuRead", "ppuWrite"} =>
       /\ mapper.clocks \in {pre.mapper.clocks, pre.mapper.clocks + 1}
       /\ (mapper.clocks = pre.mapper.clocks + 1) <=>
            (last.arg % 16384 < 8192 /\ A12Of(last.arg) = 1 /\ cnt.a12.was >= 8)
  /\ (mapper.lastA12 = 0 /\ mapper.a12LowStreak >= 8) => mapper.a12Cooldown = 0
  /\ mapper.lastA12 = 0 => mapper.a12LowStreak = cnt.a12.low

\* the second clock: eight accesses with A12 = 0 after the first one, and the
\* cooldown of 8 set by the first has run out just in time
C37_Witness ==
  /\ last.op = "ppuRead" /\ last.arg = 4096
  /\ mapper.clocks = 2 /\ pre.mapper.clocks = 1
  /\ pre.mapper.a12LowStreak = 8 /\ cnt.a12.was = 8
  /\ cnt.steps = 18
  /\ mapper.a12Cooldown = 8


\* C38: from a strobe 1 -> 0 transition on, and as long as the strobe is low,
\* the latched byte is the buttons as they were at the transition and the
\* read index is the number of reads made since (8 at most), whatever
\* setButton and writes of 0 to the strobe come in between; a setButton or a
\* write of 0 never moves the read index.
C38_LatchIsolation ==
  /\ (~pad.strobe /\ padh.latched) =>
       /\ pad.latchedByte = packFrom([b \in ButtonNames |-> b \in padh.snap], 1)
       /\ pad.shiftIndex = Min(padh.n, 8)
  /\ (last.op = "setButton" \/ (last.op = "writeStrobe" /\ last.arg % 2 = 0)) =>
       pad.shiftIndex = padh.idx

\* a read after the latch, a button changed, and a write of 0 with the strobe
\* low: the read index stays where the read left it
C38_Witness ==
  /\ last.op = "writeStrobe" /\ last.arg % 2 = 0
  /\ padh.latched /\ padh.n >= 1 /\ pad.shiftIndex = padh.n
  /\ Pressed(pad) # padh.snap
  /\ pad.latchedByte # packButtons(pad)


\* C39: with N >= 1 PRG banks of 16 KiB, a power of two or not, and PRG mode
\* 3, a write of b < N to the PRG bank register makes $8000-$BFFF read bank b
\* and $C000-$FFFF bank N-1; and no read indexes outside the PRG array.
C39_AnyBankCount ==
  /\ (last.op = "write5" /\ last.arg = 57344 /\ (mapper.control \div 4) % 4 = 3
        /\ last.val < prgBankCount16k(mapper)) =>
       \A off \in {0, 16383} :
         /\ Mapper1_cpuRead(mapper, 32768 + off) = last.val
         /\ Mapper1_cpuRead(mapper, 49152 + off) = prgBankCount16k(mapper) - 1
  /\ \A off \in {0, 16383} :
       /\ prgIndex(mapper, mapper.prgBankLo, off) \in 0..(mapper.prg.size - 1)
       /\ prgIndex(mapper, mapper.prgBankHi, off) \in 0..(mapper.prg.size - 1)


\* C40: a write to $8000-$FFFF with bit 7 set leaves CHR bank 0, CHR bank 1,
\* the PRG bank, the CHR mode bit and the mirroring reported as they were,
\* the mirroring of the header included while the control register has not
\* been written; of the control register it sets the PRG mode bits only.
C40_ResetWrite ==
  (last.op = "cpuWrite" /\ last.arg >= 32768 /\ last.val >= 128) =>
    /\ mapper.chrBank0 = pre.mapper.chrBank0
    /\ mapper.chrBank1 = pre.mapper.chrBank1
    /\ mapper.prgBank = pre.mapper.prgBank
    /\ mapper.control = BitOr(pre.mapper.control, 12)
    /\ mapper.shift = 16 /\ mapper.writes = 0
    /\ mapper.mirroring = pre.mapper.mirroring


====
